---- MODULE Spec2Model ----
(***************************************************************************)
(* A model of gitignored-cli: the envelope cryptography of lib/crypto.ts,  *)
(* the commands new, push, pull, rollback and switch, pending-key          *)
(* synchronisation and the watch loop of commands/start.ts, run in a       *)
(* workspace that talks to the relay.  The relay is not part of the        *)
(* repository: it is modelled from the transport contract (version         *)
(* counter, append-only snapshots, pending members), and so are the        *)
(* uploads that reach it from other machines.  A request is processed by   *)
(* the relay and its response handled by the client in one step; a         *)
(* command is interleaved with everything else at each of its awaits.      *)
(*                                                                         *)
(* Cryptography is symbolic.  A Uint8Array is a sequence of cells, every   *)
(* cell a record with a kind: a message byte, a nonce byte, a key (one     *)
(* cell stands for the 32 bytes of a key, which the code never slices) or  *)
(* the output of nacl.secretbox, which opens only under the key and nonce  *)
(* it was made with.  nacl.randomBytes is a draw r that no other draw      *)
(* equals.                                                                 *)
(***************************************************************************)
EXTENDS Integers, Sequences, FiniteSets, TLC

VARIABLES
    rnd,        \* number of random draws made so far (nacl.randomBytes, nacl.box.keyPair)
    encCalls,   \* crypto harness: the encryptEnv / encryptProjectKey calls made, with inputs and output
    decCall,    \* crypto harness: the last decryptEnv / decryptProjectKey call, with inputs and result
    diffCall,   \* diff harness: the parseEnvContent call or the comparison made, with inputs and result
    configFile, \* ~/.gitignored/config.json: the stored object, or NoFile
    envToken,   \* process.env.GITIGNORED_TOKEN: NotSet or its value
    configCall, \* config harness: the last saveConfig / clearConfig call (history variable)
    identity,   \* ~/.gitignored/keys/identity.key: the stored keypair, or NoFile
    registered, \* relay: the public keys POST /api/cli/keys accepted, in order
    login,      \* the login command: "idle" or the await it is suspended at, with its device code
    logCall,    \* the log command: its option, the entries collected and the pages requested
    history,    \* relay: the number of history entries of the project the log command walks
    keystore,   \* ~/.gitignored/keys/<projectId>.key, by project id: the stored string or NoFile
    cfg,        \* by workspace: .gitignored.json, or NoFile
    file,       \* by workspace: .env.shared, or NoFile
    pc,         \* by workspace: "idle" or the await the running command is suspended at
    loc,        \* by workspace: the local variables of the running command
    event,      \* the outcome of the last step: what it printed, or the
                \* branch a silent step took (history variable)
    projects,   \* relay: the projects created, in order; a project's id is its index
    snapshots,  \* relay: by project id, the snapshots in version order
    pending,    \* relay: <<project id, user id>> of the members without a key envelope
    envelopes,  \* relay: the key envelopes stored
    sent,       \* the request body the last step sent to the relay (history variable)
    uploads     \* by project id: the accepted uploads: the text uploaded and the version the uploader noted (history variable)

homeVars == <<configFile, envToken, configCall, identity, registered, login>>
logVars == <<logCall, history>>
harnessVars == <<encCalls, decCall, diffCall, homeVars, logVars>>
clientVars == <<keystore, cfg, file, pc, loc>>
relayVars == <<projects, snapshots, pending, envelopes, uploads>>
vars == <<rnd, harnessVars, clientVars, event, sent, relayVars>>

-----------------------------------------------------------------------------
(* Bounds *)

MaxEncCalls == 2        \* encrypt calls made by the crypto harness
MaxRand == 5            \* random draws in one behaviour
MaxVersion == 3         \* snapshots of one project
MaxCallbacks == 2       \* watcher callbacks in flight in one watch mode
MaxPolls == 2           \* timer ticks whose requests are in flight in one watch mode
MaxLines == 3           \* lines of a document given to parseEnvContent
MaxEntries == 2         \* entries of a map given to the comparison
MaxHistory == 201       \* history entries of the project the log command walks

(* Program constants *)

NonceLen == 24          \* nacl.randomBytes(24)
AllLimit == 100         \* log --all: entries asked for per page
PageLimit == 20         \* log: entries asked for

(* Input domains *)

Identities == {1, 2, 3}         \* identity keypairs A, B and a third party
ProjectKeyIds == {11, 12}       \* project keys
\* '' , 'A=1' , 'B=<e acute>' (a two-byte UTF-8 character) , 'A=1\nB=2'
Plaintexts == {<<>>, <<65, 61, 49>>, <<66, 61, 233>>, <<65, 61, 49, 10, 66, 61, 50>>}

Workspaces == {1}               \* working directories on the member's machine
Me == 1                         \* the member running the commands
OtherUsers == {2}               \* members who join the project at the relay
ProjectIds == {1}               \* ids the relay gives the projects it creates, in order
\* what the user writes into .env.shared: 'B=<e acute>'; `new` creates it empty
EnvContents == {<<66, 61, 233>>}
Messages == {"fix"}             \* push --message
Slugs == ProjectIds \cup {0}     \* switch <slug>; no project has slug 0
Answers == {"y", "yes", "n", ""}  \* what the user types at a prompt, trimmed and lower-cased

-----------------------------------------------------------------------------
(* tweetnacl and tweetnacl-util, as lib/crypto.ts uses them *)

Ok(v) == [ok |-> TRUE, value |-> v]
Err(m) == [ok |-> FALSE, error |-> m]

\* nacl.randomBytes(n): n bytes of the r-th random draw
randomBytes(n, r) == [i \in 1..n |-> [kind |-> "random", id |-> r]]

\* nacl.box.keyPair(): the keypair of the r-th random draw
generateKeypair(r) ==
    [publicKey |-> <<[kind |-> "publicKey", owner |-> r]>>,
     secretKey |-> <<[kind |-> "secretKey", owner |-> r]>>]

\* nacl.randomBytes(32): one cell stands for the 32 bytes
generateProjectKey(r) == <<[kind |-> "projectKey", id |-> r]>>

\* one byte of message data in a Uint8Array
Byte(n) == [kind |-> "byte", v |-> n]

\* tweetnacl-util decodeUTF8: a string (code points below 2048) to its UTF-8 bytes
RECURSIVE decodeUTF8(_)
decodeUTF8(s) ==
    IF s = <<>> THEN <<>>
    ELSE LET c == Head(s)
         IN  (IF c < 128 THEN <<Byte(c)>>
              ELSE <<Byte(192 + (c \div 64)), Byte(128 + (c % 64))>>)
                 \o decodeUTF8(Tail(s))

\* tweetnacl-util encodeUTF8: UTF-8 bytes to the string
RECURSIVE encodeUTF8(_)
encodeUTF8(b) ==
    IF b = <<>> THEN <<>>
    ELSE IF b[1].v < 128 THEN <<b[1].v>> \o encodeUTF8(Tail(b))
    ELSE <<(b[1].v - 192) * 64 + (b[2].v - 128)>> \o encodeUTF8(Tail(Tail(b)))

\* tweetnacl-util encodeBase64 / decodeBase64: bytes to an opaque string and back
encodeBase64(bytes) == [kind |-> "base64", bytes |-> bytes]
decodeBase64(str) == str.bytes

\* Uint8Array.prototype.slice(from) and slice(0, to), offsets counted from 0
sliceFrom(arr, from) == SubSeq(arr, from + 1, Len(arr))
sliceTo(arr, to) == SubSeq(arr, 1, IF to < Len(arr) THEN to ELSE Len(arr))

\* nacl.secretbox(msg, nonce, key): authenticated ciphertext
secretbox(msg, nonce, key) ==
    <<[kind |-> "secretbox", key |-> key, nonce |-> nonce, msg |-> msg]>>

\* nacl.secretbox.open(box, nonce, key): the message, or null (ok = FALSE)
secretbox_open(box, nonce, key) ==
    IF /\ Len(box) = 1
       /\ box[1].kind = "secretbox"
       /\ box[1].key = key
       /\ box[1].nonce = nonce
    THEN Ok(box[1].msg)
    ELSE Err("null")

\* nacl.box.before(publicKey, secretKey): the X25519 shared key, the same
\* for (A.public, B.secret) and (B.public, A.secret)
box_before(publicKey, secretKey) ==
    <<[kind |-> "sharedKey", pair |-> {publicKey[1].owner, secretKey[1].owner}]>>

\* nacl.box(msg, nonce, publicKey, secretKey)
box(msg, nonce, publicKey, secretKey) ==
    secretbox(msg, nonce, box_before(publicKey, secretKey))

\* nacl.box.open(box, nonce, publicKey, secretKey)
box_open(bx, nonce, publicKey, secretKey) ==
    secretbox_open(bx, nonce, box_before(publicKey, secretKey))

-----------------------------------------------------------------------------
(* lib/crypto.ts *)

\* encryptEnv with a constant nonce in place of nacl.randomBytes(24)
encryptEnv_FixedNonce(plaintext, projectKey, r) ==
    LET nonce == randomBytes(NonceLen, 0)
        messageBytes == decodeUTF8(plaintext)
        ciphertext == secretbox(messageBytes, nonce, projectKey)
        combined == nonce \o ciphertext
    IN  encodeBase64(combined)

\* encryptEnv that skips nacl.secretbox and sends the message bytes after the nonce
encryptEnv_Unsealed(plaintext, projectKey, r) ==
    LET nonce == randomBytes(NonceLen, r)
        messageBytes == decodeUTF8(plaintext)
        combined == nonce \o messageBytes
    IN  encodeBase64(combined)

\* encryptEnv(plaintext, projectKey); r is the draw of nacl.randomBytes(24)
encryptEnv(plaintext, projectKey, r) ==
    LET nonce == randomBytes(NonceLen, r)
        messageBytes == decodeUTF8(plaintext)
        ciphertext == secretbox(messageBytes, nonce, projectKey)
        combined == nonce \o ciphertext
    IN  encodeBase64(combined)

\* decryptEnv splitting the nonce one byte short
decryptEnv_ShortNonce(encrypted, projectKey) ==
    LET combined == decodeBase64(encrypted)
        nonce == sliceTo(combined, 23)
        ciphertext == sliceFrom(combined, 23)
        plaintext == secretbox_open(ciphertext, nonce, projectKey)
    IN  IF ~plaintext.ok
        THEN Err("Decryption failed. Invalid key or corrupted data.")
        ELSE Ok(encodeUTF8(plaintext.value))

\* decryptEnv reading the opened bytes as one character each
decryptEnv_Latin1(encrypted, projectKey) ==
    LET combined == decodeBase64(encrypted)
        nonce == sliceTo(combined, 24)
        ciphertext == sliceFrom(combined, 24)
        plaintext == secretbox_open(ciphertext, nonce, projectKey)
    IN  IF ~plaintext.ok
        THEN Err("Decryption failed. Invalid key or corrupted data.")
        ELSE Ok([i \in 1..Len(plaintext.value) |-> plaintext.value[i].v])

\* decryptEnv(encrypted, projectKey): Ok(string), or the thrown error
decryptEnv(encrypted, projectKey) ==
    LET combined == decodeBase64(encrypted)
        nonce == sliceTo(combined, 24)
        ciphertext == sliceFrom(combined, 24)
        plaintext == secretbox_open(ciphertext, nonce, projectKey)
    IN  IF ~plaintext.ok
        THEN Err("Decryption failed. Invalid key or corrupted data.")
        ELSE Ok(encodeUTF8(plaintext.value))

\* encryptProjectKey wrapping for the sender's own public key, whoever the recipient
encryptProjectKey_ForSelf(projectKey, recipientPublicKey, senderSecretKey, r) ==
    LET nonce == randomBytes(NonceLen, r)
        ownPublicKey == generateKeypair(senderSecretKey[1].owner).publicKey
        ciphertext == box(projectKey, nonce, ownPublicKey, senderSecretKey)
        combined == nonce \o ciphertext
    IN  encodeBase64(combined)

\* encryptProjectKey(projectKey, recipientPublicKey, senderSecretKey)
encryptProjectKey(projectKey, recipientPublicKey, senderSecretKey, r) ==
    LET nonce == randomBytes(NonceLen, r)
        ciphertext == box(projectKey, nonce, recipientPublicKey, senderSecretKey)
        combined == nonce \o ciphertext
    IN  encodeBase64(combined)

\* decryptProjectKey without the null check: what nacl.box.open gave is returned
decryptProjectKey_NoCheck(encrypted, senderPublicKey, recipientSecretKey) ==
    LET combined == decodeBase64(encrypted)
        nonce == sliceTo(combined, 24)
        ciphertext == sliceFrom(combined, 24)
        plaintext == box_open(ciphertext, nonce, senderPublicKey, recipientSecretKey)
    IN  IF ~plaintext.ok THEN Ok(<<>>) ELSE Ok(plaintext.value)

\* decryptProjectKey splitting the nonce at the key length
decryptProjectKey_KeyLenNonce(encrypted, senderPublicKey, recipientSecretKey) ==
    LET combined == decodeBase64(encrypted)
        nonce == sliceTo(combined, 32)
        ciphertext == sliceFrom(combined, 32)
        plaintext == box_open(ciphertext, nonce, senderPublicKey, recipientSecretKey)
    IN  IF ~plaintext.ok
        THEN Err("Failed to decrypt project key.")
        ELSE Ok(plaintext.value)

\* decryptProjectKey(encrypted, senderPublicKey, recipientSecretKey)
decryptProjectKey(encrypted, senderPublicKey, recipientSecretKey) ==
    LET combined == decodeBase64(encrypted)
        nonce == sliceTo(combined, 24)
        ciphertext == sliceFrom(combined, 24)
        plaintext == box_open(ciphertext, nonce, senderPublicKey, recipientSecretKey)
    IN  IF ~plaintext.ok
        THEN Err("Failed to decrypt project key.")
        ELSE Ok(plaintext.value)

-----------------------------------------------------------------------------
(* The crypto harness: applies the four functions to inputs drawn from the *)
(* input domains, as the tests of lib/crypto.ts do.                        *)

NoCall == [fn |-> "none"]

CryptoInit ==
    /\ encCalls = <<>>
    /\ decCall = NoCall

\* a test calls one pair of functions: the calls so far are all of fn
OnlyCalls(fn) == \A i \in DOMAIN encCalls : encCalls[i].fn = fn

CallEncryptEnv(p, k) ==
    /\ Len(encCalls) < MaxEncCalls
    /\ OnlyCalls("encryptEnv")
    /\ rnd < MaxRand
    /\ rnd' = rnd + 1
    /\ encCalls' = Append(encCalls,
            [fn |-> "encryptEnv", plaintext |-> p, key |-> generateProjectKey(k),
             out |-> encryptEnv(p, generateProjectKey(k), rnd + 1)])
    /\ decCall' = NoCall
    /\ UNCHANGED <<diffCall, homeVars, logVars, clientVars, event, sent, relayVars>>

CallEncryptProjectKey(k, recipient, sender) ==
    /\ Len(encCalls) < MaxEncCalls
    /\ OnlyCalls("encryptProjectKey")
    /\ rnd < MaxRand
    /\ rnd' = rnd + 1
    /\ encCalls' = Append(encCalls,
            [fn |-> "encryptProjectKey", key |-> generateProjectKey(k),
             recipient |-> recipient, sender |-> sender,
             out |-> encryptProjectKey(generateProjectKey(k),
                        generateKeypair(recipient).publicKey,
                        generateKeypair(sender).secretKey, rnd + 1)])
    /\ decCall' = NoCall
    /\ UNCHANGED <<diffCall, homeVars, logVars, clientVars, event, sent, relayVars>>

CallDecryptEnv(i, k) ==
    /\ i \in DOMAIN encCalls
    /\ encCalls[i].fn = "encryptEnv"
    /\ decCall' = [fn |-> "decryptEnv", of |-> i, key |-> generateProjectKey(k),
                   result |-> decryptEnv(encCalls[i].out, generateProjectKey(k))]
    /\ UNCHANGED <<rnd, encCalls, diffCall, homeVars, logVars, clientVars, event, sent, relayVars>>

CallDecryptProjectKey(i, senderPub, recipientSec) ==
    /\ i \in DOMAIN encCalls
    /\ encCalls[i].fn = "encryptProjectKey"
    /\ decCall' = [fn |-> "decryptProjectKey", of |-> i,
                   senderPub |-> senderPub, recipientSec |-> recipientSec,
                   result |-> decryptProjectKey(encCalls[i].out,
                                generateKeypair(senderPub).publicKey,
                                generateKeypair(recipientSec).secretKey)]
    /\ UNCHANGED <<rnd, encCalls, diffCall, homeVars, logVars, clientVars, event, sent, relayVars>>

CryptoNext ==
    \/ \E p \in Plaintexts, k \in ProjectKeyIds : CallEncryptEnv(p, k)
    \/ \E k \in ProjectKeyIds, b \in Identities, a \in Identities :
            CallEncryptProjectKey(k, b, a)
    \/ \E k \in ProjectKeyIds : CallDecryptEnv(Len(encCalls), k)
    \/ \E x \in Identities, y \in Identities :
            CallDecryptProjectKey(Len(encCalls), x, y)

-----------------------------------------------------------------------------
(* Local files: lib/keystore.ts and the workspace's .gitignored.json *)

NoFile == [exists |-> FALSE]
FileOf(c) == [exists |-> TRUE, content |-> c]

\* loadIdentityKeypair(): the keypair login stored on this machine
loadIdentityKeypair == generateKeypair(Me)

\* saveProjectKey(projectId, key): the keystore after the write
saveProjectKey(projectId, key) ==
    [keystore EXCEPT ![projectId] = FileOf(encodeBase64(key))]

\* loadProjectKey(projectId): Ok(key), or null (ok = FALSE)
loadProjectKey(projectId) ==
    IF projectId \in DOMAIN keystore /\ keystore[projectId].exists
    THEN Ok(decodeBase64(keystore[projectId].content))
    ELSE Err("null")

\* loadProjectConfig(): the parsed .gitignored.json of the workspace, or null (exists = FALSE)
loadProjectConfig(w) == cfg[w]

\* config.lastPushedVersion ?? 0
lastPushedOrZero(config) ==
    IF "lastPushedVersion" \in DOMAIN config THEN config.lastPushedVersion ELSE 0

\* config.lastPushedVersion = result.version, with the client counting by itself
trackPushedVersion_OwnCount(config, result) ==
    [projectId |-> config.projectId, projectSlug |-> config.projectSlug,
     exists |-> TRUE, lastPushedVersion |-> lastPushedOrZero(config) + 1]

\* config.lastPushedVersion = result.version
trackPushedVersion(config, result) ==
    [projectId |-> config.projectId, projectSlug |-> config.projectSlug,
     exists |-> TRUE, lastPushedVersion |-> result.version]

\* a request-body field that is neither key material nor environment content
Meta(v) == [kind |-> "meta", v |-> v]

NoLoc == [cmd |-> "none"]

\* the login command is not running
NoLogin == [at |-> "idle"]

\* the log command has not run
NoLog == [at |-> "none"]

\* what a step printed: success(...), error(...), a prompt, or nothing
Report(w, cmd, result, version) ==
    [w |-> w, cmd |-> cmd, result |-> result, version |-> version]
Quiet == Report(0, "none", "none", 0)

\* the running command moves to the await `label` with local variables l
Goto(w, label, l) ==
    /\ pc' = [pc EXCEPT ![w] = label]
    /\ loc' = [loc EXCEPT ![w] = l]

\* the running command ends
Finish(w) ==
    /\ pc' = [pc EXCEPT ![w] = "idle"]
    /\ loc' = [loc EXCEPT ![w] = NoLoc]

-----------------------------------------------------------------------------
(* The relay, from the transport contract *)

\* GET /projects/{id}/env/version: 0 when there is no snapshot yet
relayVersion(p) == Len(snapshots[p])

\* POST /projects/{id}/env: the snapshots after the relay appended the upload
relayAppend(p, body) ==
    [snapshots EXCEPT ![p] = Append(@, [encryptedPayload |-> body.encryptedPayload])]

\* the relay's record of a request body
Sent(path, body) == [path |-> path, body |-> body]
NoRequest == Sent("none", [none |-> Meta(0)])

RECURSIVE SortedSeq(_)
SortedSeq(S) ==
    IF S = {} THEN <<>>
    ELSE LET m == CHOOSE x \in S : \A y \in S : x <= y
         IN  <<m>> \o SortedSeq(S \ {m})

\* GET /projects/{id}/members/pending-keys: user id and registered public key
relayPendingKeys(p) ==
    LET users == SortedSeq({u \in Identities \ {Me} : <<p, u>> \in pending})
    IN  [i \in 1..Len(users) |->
            [userId |-> users[i],
             publicKey |-> encodeBase64(generateKeypair(users[i]).publicKey)]]

\* a member accepts an invitation at the relay and has no key envelope yet
MemberJoins(p, u) ==
    /\ p \in 1..Len(projects)
    /\ <<p, u>> \notin pending
    /\ \A e \in envelopes : ~(e.project = p /\ e.user = u)
    /\ pending' = pending \cup {<<p, u>>}
    /\ event' = Quiet
    /\ sent' = NoRequest
    /\ UNCHANGED <<rnd, harnessVars, clientVars, projects, snapshots, envelopes, uploads>>

\* the body of POST .../env sent by push
pushBody(encryptedPayload, message) ==
    [encryptedPayload |-> encryptedPayload, message |-> Meta(message)]

\* a push by a workspace of another machine that holds the project key, as
\* the relay sees it
RemoteUpload(p, c) ==
    /\ p \in 1..Len(projects)
    /\ relayVersion(p) < MaxVersion
    /\ rnd < MaxRand
    /\ LET body == pushBody(encryptEnv(c, loadProjectKey(p).value, rnd + 1), "fix")
       IN  /\ rnd' = rnd + 1
           /\ sent' = Sent("POST /api/projects/id/env", body)
           /\ snapshots' = relayAppend(p, body)
           /\ uploads' = [uploads EXCEPT ![p] = Append(@,
                    [plain |-> c, noted |-> relayVersion(p) + 1])]
    /\ event' = Quiet
    /\ UNCHANGED <<harnessVars, clientVars, projects, pending, envelopes>>

\* a key this machine does not hold: draw 0 is never made by the commands
foreignKey == generateProjectKey(0)

\* a snapshot that does not authenticate under the project key (pushed under
\* another key, or corrupted in storage or transit), as the relay serves it
ForeignUpload(p, c) ==
    /\ p \in 1..Len(projects)
    /\ relayVersion(p) < MaxVersion
    /\ rnd < MaxRand
    /\ LET body == pushBody(encryptEnv(c, foreignKey, rnd + 1), "fix")
       IN  /\ rnd' = rnd + 1
           /\ sent' = Sent("POST /api/projects/id/env", body)
           /\ snapshots' = relayAppend(p, body)
           /\ uploads' = [uploads EXCEPT ![p] = Append(@,
                    [plain |-> c, noted |-> relayVersion(p) + 1])]
    /\ event' = Quiet
    /\ UNCHANGED <<harnessVars, clientVars, projects, pending, envelopes>>

-----------------------------------------------------------------------------
(* commands/new.ts *)

\* the handler generating a second key for the keystore instead of keeping
\* the one it wrapped
New_StoresSecondKey(w, ok) ==
    /\ pc[w] = "idle"
    /\ Len(projects) < Cardinality(ProjectIds)
    /\ rnd + 2 <= MaxRand
    /\ LET name == Len(projects) + 1
           keypair == loadIdentityKeypair
           projectKey == generateProjectKey(rnd + 1)
           encryptedProjectKey ==
               encryptProjectKey(projectKey, keypair.publicKey, keypair.secretKey, rnd + 2)
           id == Len(projects) + 1
       IN  /\ rnd' = rnd + 2
           /\ sent' = Sent("POST /api/projects",
                    [name |-> Meta(name), slug |-> Meta(name),
                     encryptedProjectKey |-> encryptedProjectKey])
           /\ IF ok
              THEN /\ projects' = Append(projects, [id |-> id, slug |-> name])
                   /\ envelopes' = envelopes \cup
                        {[project |-> id, user |-> Me,
                          encryptedProjectKey |-> encryptedProjectKey]}
                   /\ keystore' = saveProjectKey(id, generateProjectKey(rnd + 2))
                   /\ cfg' = [cfg EXCEPT ![w] =
                        [exists |-> TRUE, projectId |-> id, projectSlug |-> name]]
                   /\ file' = [file EXCEPT ![w] =
                        IF file[w].exists THEN file[w] ELSE FileOf(<<>>)]
                   /\ event' = Report(w, "new", "success", 0)
              ELSE /\ event' = Report(w, "new", "error", 0)
                   /\ UNCHANGED <<projects, envelopes, keystore, cfg, file>>
    /\ UNCHANGED <<harnessVars, pc, loc, snapshots, pending, uploads>>

New(w, ok) ==
    /\ pc[w] = "idle"
    /\ Len(projects) < Cardinality(ProjectIds)
    /\ rnd + 2 <= MaxRand
    /\ LET name == Len(projects) + 1
           keypair == loadIdentityKeypair
           projectKey == generateProjectKey(rnd + 1)
           encryptedProjectKey ==
               encryptProjectKey(projectKey, keypair.publicKey, keypair.secretKey, rnd + 2)
           id == Len(projects) + 1
       IN  /\ rnd' = rnd + 2
           /\ sent' = Sent("POST /api/projects",
                    [name |-> Meta(name), slug |-> Meta(name),
                     encryptedProjectKey |-> encryptedProjectKey])
           /\ IF ok
              THEN /\ projects' = Append(projects, [id |-> id, slug |-> name])
                   /\ envelopes' = envelopes \cup
                        {[project |-> id, user |-> Me,
                          encryptedProjectKey |-> encryptedProjectKey]}
                   /\ keystore' = saveProjectKey(id, projectKey)
                   /\ cfg' = [cfg EXCEPT ![w] =
                        [exists |-> TRUE, projectId |-> id, projectSlug |-> name]]
                   /\ file' = [file EXCEPT ![w] =
                        IF file[w].exists THEN file[w] ELSE FileOf(<<>>)]
                   /\ event' = Report(w, "new", "success", 0)
              ELSE /\ event' = Report(w, "new", "error", 0)
                   /\ UNCHANGED <<projects, envelopes, keystore, cfg, file>>
    /\ UNCHANGED <<harnessVars, pc, loc, snapshots, pending, uploads>>

-----------------------------------------------------------------------------
(* commands/invite.ts *)

Roles == {"member", "readonly"}

\* the handler and the response to POST .../invitations
Invite(w, email, role, ok) ==
    /\ pc[w] = "idle"
    /\ LET config == loadProjectConfig(w)
       IN  IF ~config.exists
           THEN /\ event' = Report(w, "invite", "error", 0)
                /\ sent' = NoRequest
           ELSE /\ sent' = Sent("POST /api/projects/id/invitations",
                        [email |-> Meta(email), role |-> Meta(role)])
                /\ event' = Report(w, "invite", IF ok THEN "success" ELSE "error", email)
    /\ UNCHANGED <<rnd, harnessVars, clientVars, relayVars>>

-----------------------------------------------------------------------------
(* syncPendingKeys of commands/push.ts and commands/pull.ts *)

\* the sync taking up only the first pending member the relay returned
SyncList_FirstOnly(w, ok) ==
    /\ pc[w] = "sync.list"
    /\ LET projectId == loc[w].projectId
           pendingMembers == relayPendingKeys(projectId)
           projectKey == loadProjectKey(projectId)
       IN  IF ~ok \/ Len(pendingMembers) = 0 \/ ~projectKey.ok
           THEN Finish(w)
           ELSE Goto(w, "sync.key",
                     [cmd |-> loc[w].cmd, projectId |-> projectId,
                      projectKey |-> projectKey.value,
                      todo |-> <<Head(pendingMembers)>>, shared |-> 0])
    /\ event' = IF ok
                THEN Report(w, "sync", "listed", Len(relayPendingKeys(loc[w].projectId)))
                ELSE Report(w, "sync", "unlisted", 0)
    /\ sent' = NoRequest
    /\ UNCHANGED <<rnd, harnessVars, keystore, cfg, file, relayVars>>

\* the response to GET .../members/pending-keys
SyncList(w, ok) ==
    /\ pc[w] = "sync.list"
    /\ LET projectId == loc[w].projectId
           pendingMembers == relayPendingKeys(projectId)
           projectKey == loadProjectKey(projectId)
       IN  IF ~ok \/ Len(pendingMembers) = 0 \/ ~projectKey.ok
           THEN Finish(w)
           ELSE Goto(w, "sync.key",
                     [cmd |-> loc[w].cmd, projectId |-> projectId,
                      projectKey |-> projectKey.value,
                      todo |-> pendingMembers, shared |-> 0])
    /\ event' = IF ok
                THEN Report(w, "sync", "listed", Len(relayPendingKeys(loc[w].projectId)))
                ELSE Report(w, "sync", "unlisted", 0)
    /\ sent' = NoRequest
    /\ UNCHANGED <<rnd, harnessVars, keystore, cfg, file, relayVars>>

\* the loop with its try around the whole loop: the first failure ends it
SyncKey_StopsAtFailure(w, ok) ==
    /\ pc[w] = "sync.key"
    /\ rnd < MaxRand
    /\ LET member == Head(loc[w].todo)
           keypair == loadIdentityKeypair
           recipientPublicKey == decodeBase64(member.publicKey)
           encrypted == encryptProjectKey(loc[w].projectKey, recipientPublicKey,
                            keypair.secretKey, rnd + 1)
           shared == IF ok THEN loc[w].shared + 1 ELSE loc[w].shared
       IN  /\ rnd' = rnd + 1
           /\ sent' = Sent("POST /api/projects/id/members/userId/key",
                    [encryptedProjectKey |-> encrypted])
           /\ IF ok
              THEN /\ envelopes' = envelopes \cup
                        {[project |-> loc[w].projectId, user |-> member.userId,
                          encryptedProjectKey |-> encrypted]}
                   /\ pending' = pending \ {<<loc[w].projectId, member.userId>>}
              ELSE UNCHANGED <<envelopes, pending>>
           /\ IF Len(loc[w].todo) = 1 \/ ~ok
              THEN /\ Finish(w)
                   /\ event' = IF shared > 0 THEN Report(w, "sync", "shared", shared)
                                ELSE Quiet
              ELSE /\ Goto(w, "sync.key",
                        [loc[w] EXCEPT !.todo = Tail(@), !.shared = shared])
                   /\ event' = Quiet
    /\ UNCHANGED <<harnessVars, keystore, cfg, file, projects, snapshots, uploads>>

\* the loop generating a key for each member instead of wrapping the stored one
SyncKey_WrapsFreshKey(w, ok) ==
    /\ pc[w] = "sync.key"
    /\ rnd + 2 <= MaxRand
    /\ LET member == Head(loc[w].todo)
           keypair == loadIdentityKeypair
           recipientPublicKey == decodeBase64(member.publicKey)
           encrypted == encryptProjectKey(generateProjectKey(rnd + 1), recipientPublicKey,
                            keypair.secretKey, rnd + 2)
           shared == IF ok THEN loc[w].shared + 1 ELSE loc[w].shared
       IN  /\ rnd' = rnd + 2
           /\ sent' = Sent("POST /api/projects/id/members/userId/key",
                    [encryptedProjectKey |-> encrypted])
           /\ IF ok
              THEN /\ envelopes' = envelopes \cup
                        {[project |-> loc[w].projectId, user |-> member.userId,
                          encryptedProjectKey |-> encrypted]}
                   /\ pending' = pending \ {<<loc[w].projectId, member.userId>>}
              ELSE UNCHANGED <<envelopes, pending>>
           /\ IF Len(loc[w].todo) = 1
              THEN /\ Finish(w)
                   /\ event' = IF shared > 0 THEN Report(w, "sync", "shared", shared)
                                ELSE Quiet
              ELSE /\ Goto(w, "sync.key",
                        [loc[w] EXCEPT !.todo = Tail(@), !.shared = shared])
                   /\ event' = Quiet
    /\ UNCHANGED <<harnessVars, keystore, cfg, file, projects, snapshots, uploads>>

\* one turn of the loop: wrap for the next member, POST .../members/{userId}/key
SyncKey(w, ok) ==
    /\ pc[w] = "sync.key"
    /\ rnd < MaxRand
    /\ LET member == Head(loc[w].todo)
           keypair == loadIdentityKeypair
           recipientPublicKey == decodeBase64(member.publicKey)
           encrypted == encryptProjectKey(loc[w].projectKey, recipientPublicKey,
                            keypair.secretKey, rnd + 1)
           shared == IF ok THEN loc[w].shared + 1 ELSE loc[w].shared
       IN  /\ rnd' = rnd + 1
           /\ sent' = Sent("POST /api/projects/id/members/userId/key",
                    [encryptedProjectKey |-> encrypted])
           /\ IF ok
              THEN /\ envelopes' = envelopes \cup
                        {[project |-> loc[w].projectId, user |-> member.userId,
                          encryptedProjectKey |-> encrypted]}
                   /\ pending' = pending \ {<<loc[w].projectId, member.userId>>}
              ELSE UNCHANGED <<envelopes, pending>>
           /\ IF Len(loc[w].todo) = 1
              THEN /\ Finish(w)
                   /\ event' = IF shared > 0 THEN Report(w, "sync", "shared", shared)
                                ELSE Quiet
              ELSE /\ Goto(w, "sync.key",
                        [loc[w] EXCEPT !.todo = Tail(@), !.shared = shared])
                   /\ event' = Quiet
    /\ UNCHANGED <<harnessVars, keystore, cfg, file, projects, snapshots, uploads>>

-----------------------------------------------------------------------------
(* commands/push.ts *)

\* the handler up to its first await
PushStart(w, force, message) ==
    /\ pc[w] = "idle"
    /\ LET config == loadProjectConfig(w)
           projectKey == loadProjectKey(config.projectId)
       IN  IF ~config.exists \/ ~file[w].exists \/ ~projectKey.ok
           THEN /\ UNCHANGED <<pc, loc>>
                /\ event' = Report(w, "push", "error", 0)
           ELSE /\ Goto(w, IF force THEN "push.post" ELSE "push.version",
                        [cmd |-> "push", config |-> config,
                         envContent |-> file[w].content,
                         projectKey |-> projectKey.value, force |-> force,
                         message |-> message])
                /\ event' = Quiet
    /\ sent' = NoRequest
    /\ UNCHANGED <<rnd, harnessVars, keystore, cfg, file, relayVars>>

\* the conflict test without its first-push exemption
serverIsAhead_AnyLocalVersion(versionResult, config) ==
    LET localVersion == lastPushedOrZero(config)
    IN  versionResult.version > localVersion

\* versionResult.version > localVersion && localVersion > 0
serverIsAhead(versionResult, config) ==
    LET localVersion == lastPushedOrZero(config)
    IN  versionResult.version > localVersion /\ localVersion > 0

\* the version check without its catch: a failed request ends the push
PushVersion_FailureAborts(w, ok) ==
    /\ pc[w] = "push.version"
    /\ LET versionResult == [version |-> relayVersion(loc[w].config.projectId)]
       IN  IF ~ok
           THEN /\ Finish(w)
                /\ event' = Report(w, "push", "unchecked", 0)
           ELSE IF serverIsAhead(versionResult, loc[w].config)
           THEN /\ Goto(w, "push.prompt", loc[w])
                /\ event' = Report(w, "push", "warn", versionResult.version)
           ELSE /\ Goto(w, "push.post", loc[w])
                /\ event' = Report(w, "push", "checked", 0)
    /\ sent' = NoRequest
    /\ UNCHANGED <<rnd, harnessVars, keystore, cfg, file, relayVars>>

\* the response to GET .../env/version
PushVersion(w, ok) ==
    /\ pc[w] = "push.version"
    /\ LET versionResult == [version |-> relayVersion(loc[w].config.projectId)]
       IN  IF ok /\ serverIsAhead(versionResult, loc[w].config)
           THEN /\ Goto(w, "push.prompt", loc[w])
                /\ event' = Report(w, "push", "warn", versionResult.version)
           ELSE /\ Goto(w, "push.post", loc[w])
                /\ event' = Report(w, "push", IF ok THEN "checked" ELSE "unchecked", 0)
    /\ sent' = NoRequest
    /\ UNCHANGED <<rnd, harnessVars, keystore, cfg, file, relayVars>>

\* answer !== "y" && answer !== "yes"
declined(answer) == answer # "y" /\ answer # "yes"

\* the prompt with the cancel branch falling through to the key sync
PushAnswer_DeclineSyncs(w, answer) ==
    /\ pc[w] = "push.prompt"
    /\ IF declined(answer)
       THEN /\ Goto(w, "sync.list",
                    [cmd |-> "push", projectId |-> loc[w].config.projectId])
            /\ event' = Report(w, "push", "cancelled", 0)
       ELSE /\ Goto(w, "push.post", loc[w])
            /\ event' = Quiet
    /\ sent' = NoRequest
    /\ UNCHANGED <<rnd, harnessVars, keystore, cfg, file, relayVars>>

\* the answer to "Continue? [y/N]"
PushAnswer(w, answer) ==
    /\ pc[w] = "push.prompt"
    /\ IF declined(answer)
       THEN /\ Finish(w)
            /\ event' = Report(w, "push", "cancelled", 0)
       ELSE /\ Goto(w, "push.post", loc[w])
            /\ event' = Quiet
    /\ sent' = NoRequest
    /\ UNCHANGED <<rnd, harnessVars, keystore, cfg, file, relayVars>>

\* the upload without the call of syncPendingKeys after it
PushPost_NoSync(w, ok) ==
    /\ pc[w] = "push.post"
    /\ rnd < MaxRand
    /\ LET config == loc[w].config
           p == config.projectId
           encryptedPayload == encryptEnv(loc[w].envContent, loc[w].projectKey, rnd + 1)
           body == pushBody(encryptedPayload, loc[w].message)
           result == [version |-> relayVersion(p) + 1]
           saved == trackPushedVersion(config, result)
       IN  /\ rnd' = rnd + 1
           /\ sent' = Sent("POST /api/projects/id/env", body)
           /\ Finish(w)
           /\ IF ok
              THEN /\ relayVersion(p) < MaxVersion
                   /\ snapshots' = relayAppend(p, body)
                   /\ uploads' = [uploads EXCEPT ![p] = Append(@,
                        [plain |-> loc[w].envContent,
                         noted |-> saved.lastPushedVersion])]
                   /\ cfg' = [cfg EXCEPT ![w] = saved]
                   /\ event' = Report(w, "push", "success", result.version)
              ELSE /\ event' = Report(w, "push", "error", 0)
                   /\ UNCHANGED <<snapshots, uploads, cfg>>
    /\ UNCHANGED <<harnessVars, keystore, file, projects, pending, envelopes>>

\* encryptEnv, POST .../env and its response
PushPost(w, ok) ==
    /\ pc[w] = "push.post"
    /\ rnd < MaxRand
    /\ LET config == loc[w].config
           p == config.projectId
           encryptedPayload == encryptEnv(loc[w].envContent, loc[w].projectKey, rnd + 1)
           body == pushBody(encryptedPayload, loc[w].message)
           result == [version |-> relayVersion(p) + 1]
           saved == trackPushedVersion(config, result)
       IN  /\ rnd' = rnd + 1
           /\ sent' = Sent("POST /api/projects/id/env", body)
           /\ IF ok
              THEN /\ relayVersion(p) < MaxVersion
                   /\ snapshots' = relayAppend(p, body)
                   /\ uploads' = [uploads EXCEPT ![p] = Append(@,
                        [plain |-> loc[w].envContent,
                         noted |-> saved.lastPushedVersion])]
                   /\ cfg' = [cfg EXCEPT ![w] = saved]
                   /\ Goto(w, "sync.list", [cmd |-> "push", projectId |-> p])
                   /\ event' = Report(w, "push", "success", result.version)
              ELSE /\ Finish(w)
                   /\ event' = Report(w, "push", "error", 0)
                   /\ UNCHANGED <<snapshots, uploads, cfg>>
    /\ UNCHANGED <<harnessVars, keystore, file, projects, pending, envelopes>>

-----------------------------------------------------------------------------
(* commands/pull.ts *)

\* GET /projects/{id}/env: the latest snapshot, or a response without payload
relayLatest(p) ==
    IF relayVersion(p) = 0 THEN [version |-> 0]
    ELSE [encryptedPayload |-> snapshots[p][relayVersion(p)].encryptedPayload,
          version |-> relayVersion(p)]

\* GET /projects/{id}/env/{version}: that snapshot, or a response without payload
relaySnapshot(p, version) ==
    IF version \in 1..relayVersion(p)
    THEN [encryptedPayload |-> snapshots[p][version].encryptedPayload,
          version |-> version]
    ELSE [version |-> 0]

\* !result.encryptedPayload
noPayload(result) == "encryptedPayload" \notin DOMAIN result

\* the pull without its empty-response test: no snapshot reads as empty content
Pull_EmptyWhenMissing(w, ok) ==
    /\ pc[w] = "idle"
    /\ LET config == loadProjectConfig(w)
           projectKey == loadProjectKey(config.projectId)
           result == relayLatest(config.projectId)
           decrypted == IF noPayload(result) THEN Ok(<<>>)
                        ELSE decryptEnv(result.encryptedPayload, projectKey.value)
       IN  IF ~config.exists \/ ~projectKey.ok \/ ~ok
           THEN /\ event' = Report(w, "pull", "error", 0)
                /\ UNCHANGED <<file, pc, loc>>
           ELSE IF ~decrypted.ok
           THEN /\ event' = Report(w, "pull", "failed", 0)
                /\ UNCHANGED <<file, pc, loc>>
           ELSE /\ file' = [file EXCEPT ![w] = FileOf(decrypted.value)]
                /\ event' = Report(w, "pull", "success", result.version)
                /\ Goto(w, "sync.list", [cmd |-> "pull", projectId |-> config.projectId])
    /\ sent' = NoRequest
    /\ UNCHANGED <<rnd, harnessVars, keystore, cfg, relayVars>>

\* the handler (config mode) and the response to GET .../env
Pull(w, ok) ==
    /\ pc[w] = "idle"
    /\ LET config == loadProjectConfig(w)
           projectKey == loadProjectKey(config.projectId)
           result == relayLatest(config.projectId)
           decrypted == decryptEnv(result.encryptedPayload, projectKey.value)
       IN  IF ~config.exists \/ ~projectKey.ok \/ ~ok
           THEN /\ event' = Report(w, "pull", "error", 0)
                /\ UNCHANGED <<file, pc, loc>>
           ELSE IF noPayload(result)
           THEN /\ event' = Report(w, "pull", "notfound", 0)
                /\ UNCHANGED <<file, pc, loc>>
           ELSE IF ~decrypted.ok
           THEN /\ event' = Report(w, "pull", "failed", 0)
                /\ UNCHANGED <<file, pc, loc>>
           ELSE /\ file' = [file EXCEPT ![w] = FileOf(decrypted.value)]
                /\ event' = Report(w, "pull", "success", result.version)
                /\ Goto(w, "sync.list", [cmd |-> "pull", projectId |-> config.projectId])
    /\ sent' = NoRequest
    /\ UNCHANGED <<rnd, harnessVars, keystore, cfg, relayVars>>

-----------------------------------------------------------------------------
(* lib/config.ts *)

\* A Config is a record; a field that is absent or undefined is not in its
\* domain once the object has been through JSON.stringify.

\* the value of a property that is undefined, and of an environment variable
\* that is not set
Undefined == "undefined"

DEFAULT_CONFIG == [apiBaseUrl |-> "http://localhost:3000"]

\* a value that passes `if (envToken)`: set and not the empty string
Truthy(v) == v # Undefined /\ v # ""

\* the object spread { ...a, ...b }
Spread(a, b) ==
    [k \in DOMAIN a \cup DOMAIN b |-> IF k \in DOMAIN b THEN b[k] ELSE a[k]]

\* config.authToken = envToken
WithAuthToken(config, token) == Spread(config, [authToken |-> token])

\* delete obj[k]
Delete(obj, k) == [x \in DOMAIN obj \ {k} |-> obj[x]]

\* obj[k], undefined when the property is absent
Get(obj, k) == IF k \in DOMAIN obj THEN obj[k] ELSE Undefined

\* JSON.stringify followed by JSON.parse: undefined properties are dropped
JSONOf(obj) ==
    LET defined == {k \in DOMAIN obj : obj[k] # Undefined}
    IN  [k \in defined |-> obj[k]]

\* getConfig(): the file over the defaults (the defaults alone when there is
\* no file), with the environment's token over both
getConfig ==
    LET config == IF configFile.exists
                  THEN Spread(DEFAULT_CONFIG, configFile.content)
                  ELSE DEFAULT_CONFIG
    IN  IF Truthy(envToken) THEN WithAuthToken(config, envToken) ELSE config

\* saveConfig writing whatever the merge gave
saveConfig_PersistsEnv(partial) ==
    LET existing == getConfig
        merged == Spread(existing, partial)
    IN  FileOf(JSONOf(merged))

\* saveConfig(partial): the config file after the call
saveConfig(partial) ==
    LET existing == getConfig
        merged == Spread(existing, partial)
        kept == IF Truthy(envToken) /\ Get(merged, "authToken") = envToken
                THEN Delete(merged, "authToken")
                ELSE merged
    IN  FileOf(JSONOf(kept))

\* clearConfig(): the config file after the call
clearConfig ==
    LET config == getConfig
    IN  FileOf(JSONOf(Delete(Delete(Delete(config, "authToken"), "userId"), "email")))

(* The harness of the config functions, as the tests of lib/config.ts call
   them: the environment variable is set or deleted, saveConfig and
   clearConfig are called. *)

Tokens == {"token-a", "token-b"}
EnvTokens == Tokens \cup {Undefined, ""}

Partials ==
    {[authToken |-> t] : t \in Tokens}
    \cup {[userId |-> "user-111"], [email |-> "new@example.com"],
          [apiBaseUrl |-> "https://api.example.com", userId |-> "user-789"],
          [userId |-> Undefined]}
    \cup {[authToken |-> t, userId |-> "user-444", email |-> "test@example.com"]
            : t \in Tokens}

NoConfigCall == [fn |-> "none"]

SetEnv(v) ==
    /\ envToken' = v
    /\ configCall' = [fn |-> "env"]
    /\ UNCHANGED <<configFile, identity, registered, login>>
    /\ UNCHANGED <<rnd, encCalls, decCall, diffCall, logVars, clientVars, event, sent, relayVars>>

CallSaveConfig(partial) ==
    /\ configFile' = saveConfig(partial)
    /\ configCall' = [fn |-> "saveConfig", partial |-> partial]
    /\ UNCHANGED <<envToken, identity, registered, login>>
    /\ UNCHANGED <<rnd, encCalls, decCall, diffCall, logVars, clientVars, event, sent, relayVars>>

CallClearConfig ==
    /\ configFile' = clearConfig
    /\ configCall' = [fn |-> "clearConfig"]
    /\ UNCHANGED <<envToken, identity, registered, login>>
    /\ UNCHANGED <<rnd, encCalls, decCall, diffCall, logVars, clientVars, event, sent, relayVars>>

ConfigNext ==
    \/ \E v \in EnvTokens : SetEnv(v)
    \/ \E partial \in Partials : CallSaveConfig(partial)
    \/ CallClearConfig

-----------------------------------------------------------------------------
(* lib/keystore.ts (the identity file) and commands/login.ts, logout *)

\* hasIdentityKeypair(): keys/identity.key exists
hasIdentityKeypair == identity.exists

\* saveIdentityKeypair(keypair): the identity file after the call
saveIdentityKeypair(keypair) ==
    FileOf([publicKey |-> encodeBase64(keypair.publicKey),
            secretKey |-> encodeBase64(keypair.secretKey)])

\* what GET /api/cli/device/<code>/status can give: the code is not approved
\* yet, it is approved, the relay answers 404, the request fails otherwise
StatusResponses == {"pending", "approved", "404", "error"}

\* the login command suspended at the await `label`
LoginAt(label, code) == [at |-> label, code |-> code]

\* login, up to the request that announces the device code
LoginStart ==
    /\ login = NoLogin
    /\ rnd < MaxRand
    /\ rnd' = rnd + 1
    /\ login' = LoginAt("device", rnd + 1)
    /\ sent' = Sent("/api/cli/device", [code |-> Meta(rnd + 1)])
    /\ event' = Quiet
    /\ UNCHANGED <<configFile, envToken, configCall, identity, registered>>
    /\ UNCHANGED <<encCalls, decCall, diffCall, logVars, clientVars, relayVars>>

\* POST /api/cli/device answers; a failure ends the command ("Login failed")
LoginDevice(ok) ==
    /\ login.at = "device"
    /\ IF ok
       THEN /\ login' = LoginAt("status", login.code)
            /\ event' = Quiet
       ELSE /\ login' = NoLogin
            /\ event' = Report(0, "login", "failed", 0)
    /\ UNCHANGED <<configFile, envToken, configCall, identity, registered>>
    /\ UNCHANGED <<rnd, encCalls, decCall, diffCall, logVars, clientVars, sent, relayVars>>

\* the branch of an approved status with a token: the session is stored, and
\* a machine without an identity file (`has` false) gets a keypair, stores it
\* and sends the public key
Approved(token, has) ==
    /\ configFile' = saveConfig([authToken |-> token, userId |-> "user-111",
                                 email |-> "test@example.com"])
    /\ IF has
       THEN /\ login' = NoLogin
            /\ event' = Report(0, "login", "success", 0)
            /\ UNCHANGED <<rnd, identity, sent>>
       ELSE LET keypair == generateKeypair(rnd + 1)
            IN  /\ rnd < MaxRand
                /\ rnd' = rnd + 1
                /\ identity' = saveIdentityKeypair(keypair)
                /\ login' = LoginAt("keys", login.code)
                /\ sent' = Sent("/api/cli/keys",
                                [publicKey |-> encodeBase64(keypair.publicKey)])
                /\ event' = Quiet

\* what the other answers of the status request do
NotApproved(resp) ==
    /\ IF resp = "404"
       THEN /\ login' = NoLogin
            /\ event' = Report(0, "login", "expired", 0)
       ELSE /\ login' = login
            /\ event' = Quiet
    /\ UNCHANGED <<configFile, rnd, identity, sent>>

\* a login that makes a keypair whether or not one is stored
LoginStatus_AlwaysGenerates(resp, token) ==
    /\ login.at = "status"
    /\ IF resp = "approved" THEN Approved(token, FALSE) ELSE NotApproved(resp)
    /\ UNCHANGED <<envToken, configCall, registered>>
    /\ UNCHANGED <<encCalls, decCall, diffCall, logVars, clientVars, relayVars>>

\* one round of the polling loop: sleep, GET the status, act on it
LoginStatus(resp, token) ==
    /\ login.at = "status"
    /\ IF resp = "approved"
       THEN Approved(token, hasIdentityKeypair)
       ELSE NotApproved(resp)
    /\ UNCHANGED <<envToken, configCall, registered>>
    /\ UNCHANGED <<encCalls, decCall, diffCall, logVars, clientVars, relayVars>>

\* POST /api/cli/keys answers: accepted, 404, or another failure. The request
\* is inside the loop's try block: a 404 ends the command, any other failure
\* is swallowed and the loop polls again
LoginKeys(resp) ==
    /\ login.at = "keys"
    /\ resp \in {"ok", "404", "error"}
    /\ CASE resp = "ok" ->
              /\ registered' = Append(registered, identity.content.publicKey)
              /\ login' = NoLogin
              /\ event' = Report(0, "login", "success", 0)
         [] resp = "404" ->
              /\ registered' = registered
              /\ login' = NoLogin
              /\ event' = Report(0, "login", "expired", 0)
         [] OTHER ->
              /\ registered' = registered
              /\ login' = LoginAt("status", login.code)
              /\ event' = Quiet
    /\ UNCHANGED <<configFile, envToken, configCall, identity>>
    /\ UNCHANGED <<rnd, encCalls, decCall, diffCall, logVars, clientVars, sent, relayVars>>

\* logout: clearConfig() and a message
Logout ==
    /\ login = NoLogin
    /\ configFile' = clearConfig
    /\ event' = Report(0, "logout", "success", 0)
    /\ UNCHANGED <<envToken, configCall, identity, registered, login>>
    /\ UNCHANGED <<rnd, encCalls, decCall, diffCall, logVars, clientVars, sent, relayVars>>

LoginNext ==
    \/ LoginStart
    \/ \E ok \in BOOLEAN : LoginDevice(ok)
    \/ \E resp \in StatusResponses, token \in Tokens : LoginStatus(resp, token)
    \/ \E resp \in {"ok", "404", "error"} : LoginKeys(resp)
    \/ Logout

-----------------------------------------------------------------------------
(* commands/log.ts *)

\* limit = options.all ? 100 : 20
limitOf(all) == IF all THEN AllLimit ELSE PageLimit

Min(a, b) == IF a < b THEN a ELSE b

\* GET .../env/history?page=&limit= : the entries of that page, by version
\* ascending, and the number of entries the project has
relayHistory(page, limit) ==
    LET first == (page - 1) * limit
        n == IF history > first THEN Min(limit, history - first) ELSE 0
    IN  [snapshots |-> [i \in 1..n |-> first + i], total |-> history]

\* somebody's push is accepted: the history of the project grows by an entry
HistoryGrows ==
    /\ history < MaxHistory
    /\ history' = history + 1
    /\ UNCHANGED <<logCall, rnd, encCalls, decCall, diffCall, homeVars, clientVars, event,
                   sent, relayVars>>

\* the handler up to its first request
LogStart(w, all) ==
    /\ logCall.at # "page"
    /\ LET config == loadProjectConfig(w)
       IN  IF ~config.exists
           THEN /\ logCall' = NoLog
                /\ event' = Report(w, "log", "error", 0)
           ELSE /\ logCall' = [at |-> "page", w |-> w, all |-> all, limit |-> limitOf(all),
                               page |-> 1, allSnapshots |-> << >>]
                /\ event' = Quiet
    /\ UNCHANGED <<history, rnd, encCalls, decCall, diffCall, homeVars, clientVars, sent,
                   relayVars>>

\* the loop asking for the same page again
LogPage_SamePage(ok) ==
    /\ logCall.at = "page"
    /\ LET result == relayHistory(logCall.page, logCall.limit)
           allSnapshots == logCall.allSnapshots \o result.snapshots
       IN  IF ~ok
           THEN /\ logCall' = [at |-> "failed"]
                /\ event' = Report(logCall.w, "log", "error", 0)
           ELSE IF ~logCall.all \/ Len(allSnapshots) >= result.total
           THEN /\ logCall' = [at |-> "done", all |-> logCall.all, page |-> logCall.page,
                               allSnapshots |-> allSnapshots]
                /\ event' = Report(logCall.w, "log",
                                   IF Len(allSnapshots) = 0 THEN "empty" ELSE "shown", 0)
           ELSE /\ logCall' = [logCall EXCEPT !.allSnapshots = allSnapshots]
                /\ event' = Quiet
    /\ UNCHANGED <<history, rnd, encCalls, decCall, diffCall, homeVars, clientVars, sent,
                   relayVars>>

\* one turn of the loop: the page is answered (or the request fails and the
\* command ends with "Log failed"), its entries are appended, and the loop
\* ends or goes on to the next page
LogPage(ok) ==
    /\ logCall.at = "page"
    /\ LET result == relayHistory(logCall.page, logCall.limit)
           allSnapshots == logCall.allSnapshots \o result.snapshots
       IN  IF ~ok
           THEN /\ logCall' = [at |-> "failed"]
                /\ event' = Report(logCall.w, "log", "error", 0)
           ELSE IF ~logCall.all \/ Len(allSnapshots) >= result.total
           THEN /\ logCall' = [at |-> "done", all |-> logCall.all, page |-> logCall.page,
                               allSnapshots |-> allSnapshots]
                /\ event' = Report(logCall.w, "log",
                                   IF Len(allSnapshots) = 0 THEN "empty" ELSE "shown", 0)
           ELSE /\ logCall' = [logCall EXCEPT !.allSnapshots = allSnapshots,
                                              !.page = @ + 1]
                /\ event' = Quiet
    /\ UNCHANGED <<history, rnd, encCalls, decCall, diffCall, homeVars, clientVars, sent,
                   relayVars>>

LogNext ==
    \/ HistoryGrows
    \/ \E w \in Workspaces, all \in BOOLEAN : LogStart(w, all)
    \/ \E ok \in BOOLEAN : LogPage(ok)

-----------------------------------------------------------------------------
(* commands/diff.ts: parseEnvContent and the comparison *)

\* A string is the sequence of its character codes.  A Map<string, string>
\* is the sequence of its entries in insertion order, with distinct keys.

\* the characters String.prototype.trim removes
WhiteSpace ==
    {9, 10, 11, 12, 13, 32, 160, 5760, 8232, 8233, 8239, 8287, 12288, 65279}
        \cup 8192..8202

\* content.split("\n") and trimmed.indexOf("="), trimmed.startsWith("#")
NewLine == 10
EqualsSign == 61
Hash == 35

\* String.prototype.trim
trim(s) ==
    LET kept == {i \in 1..Len(s) : s[i] \notin WhiteSpace}
    IN  IF kept = {} THEN <<>>
        ELSE SubSeq(s, CHOOSE i \in kept : \A j \in kept : i <= j,
                       CHOOSE i \in kept : \A j \in kept : j <= i)

\* String.prototype.indexOf with a one-character argument: the position,
\* counted from 0, of the first occurrence, or -1
indexOf(s, c) ==
    LET at == {i \in 1..Len(s) : s[i] = c}
    IN  IF at = {} THEN -1 ELSE (CHOOSE i \in at : \A j \in at : i <= j) - 1

\* String.prototype.slice with positions counted from 0, 0 <= start <= end
slice(s, start, end) == SubSeq(s, start + 1, end)

\* String.prototype.split with a one-character separator
RECURSIVE split(_, _)
split(s, sep) ==
    LET eol == indexOf(s, sep)
    IN  IF eol = -1 THEN <<s>>
        ELSE <<slice(s, 0, eol)>> \o split(slice(s, eol + 1, Len(s)), sep)

\* Map.prototype.has, get and set: set on a key the map has replaces the
\* value where the entry is, set on a new key appends an entry
MapHas(map, key) == \E i \in DOMAIN map : map[i].key = key

MapGet(map, key) == map[CHOOSE i \in DOMAIN map : map[i].key = key].value

MapSet(map, key, value) ==
    IF MapHas(map, key)
    THEN [i \in DOMAIN map |->
            IF map[i].key = key THEN [key |-> key, value |-> value] ELSE map[i]]
    ELSE Append(map, [key |-> key, value |-> value])

parseLine_KeepsFirst(map, line) ==
    LET trimmed == trim(line)
        eqIdx == indexOf(trimmed, EqualsSign)
        key == trim(slice(trimmed, 0, eqIdx))
        value == trim(slice(trimmed, eqIdx + 1, Len(trimmed)))
    IN  IF trimmed = <<>> \/ Head(trimmed) = Hash THEN map
        ELSE IF eqIdx = -1 THEN map
        ELSE IF MapHas(map, key) THEN map
        ELSE MapSet(map, key, value)

\* the body of the loop of parseEnvContent: the map after one line
parseLine(map, line) ==
    LET trimmed == trim(line)
        eqIdx == indexOf(trimmed, EqualsSign)
        key == trim(slice(trimmed, 0, eqIdx))
        value == trim(slice(trimmed, eqIdx + 1, Len(trimmed)))
    IN  IF trimmed = <<>> \/ Head(trimmed) = Hash THEN map
        ELSE IF eqIdx = -1 THEN map
        ELSE MapSet(map, key, value)

RECURSIVE parseLines(_, _)
parseLines(map, lines) ==
    IF lines = <<>> THEN map
    ELSE parseLines(parseLine(map, Head(lines)), Tail(lines))

parseEnvContent(content) == parseLines(<<>>, split(content, NewLine))

\* the template literal `${key}=${value}`
KeyValue(key, value) == key \o <<EqualsSign>> \o value

\* the three lists the handler fills from the two maps
added(localVars, remoteVars) ==
    LET Absent(e) == ~MapHas(localVars, e.key)
        absent == SelectSeq(remoteVars, Absent)
    IN  [i \in 1..Len(absent) |-> KeyValue(absent[i].key, absent[i].value)]

changed_AlsoEqual(localVars, remoteVars) ==
    LET Shared(e) == MapHas(localVars, e.key)
        shared == SelectSeq(remoteVars, Shared)
    IN  [i \in 1..Len(shared) |->
            [key |-> shared[i].key,
             local |-> MapGet(localVars, shared[i].key),
             remote |-> shared[i].value]]

changed(localVars, remoteVars) ==
    LET Differs(e) == MapHas(localVars, e.key) /\ MapGet(localVars, e.key) # e.value
        differing == SelectSeq(remoteVars, Differs)
    IN  [i \in 1..Len(differing) |->
            [key |-> differing[i].key,
             local |-> MapGet(localVars, differing[i].key),
             remote |-> differing[i].value]]

removed(localVars, remoteVars) ==
    LET Gone(e) == ~MapHas(remoteVars, e.key)
        gone == SelectSeq(localVars, Gone)
    IN  [i \in 1..Len(gone) |->
            KeyValue(gone[i].key, MapGet(localVars, gone[i].key))]

\* added.length === 0 && removed.length === 0 && changed.length === 0
inSync(localVars, remoteVars) ==
    /\ Len(added(localVars, remoteVars)) = 0
    /\ Len(removed(localVars, remoteVars)) = 0
    /\ Len(changed(localVars, remoteVars)) = 0

(* The harness of the diff functions: a document is parsed, or two maps
   are compared, once. *)

\* the lines documents are made of:
\* 'A=1', 'A=2', 'B=1', ' A = 2 ', '#A=1', '', 'A=1<CR>', 'A', 'A=1=2',
\* '=1', ' #B=1'
Lines ==
    {<<65, 61, 49>>, <<65, 61, 50>>, <<66, 61, 49>>,
     <<32, 65, 32, 61, 32, 50, 32>>, <<35, 65, 61, 49>>, <<>>,
     <<65, 61, 49, 13>>, <<65>>, <<65, 61, 49, 61, 50>>, <<61, 49>>,
     <<32, 35, 66, 61, 49>>}

RECURSIVE JoinLines(_)
JoinLines(lines) ==
    IF lines = <<>> THEN <<>>
    ELSE IF Len(lines) = 1 THEN Head(lines)
    ELSE Head(lines) \o <<NewLine>> \o JoinLines(Tail(lines))

LineSeqs == UNION {[1..n -> Lines] : n \in 0..MaxLines}

\* keys 'A', 'B', 'C' and values '1', '2', '3', '4'
EnvKeys == {<<65>>, <<66>>, <<67>>}
EnvValues == {<<49>>, <<50>>, <<51>>, <<52>>}

EnvMaps ==
    UNION {{m \in [1..n -> [key : EnvKeys, value : EnvValues]] :
                \A i, j \in 1..n : m[i].key = m[j].key => i = j}
           : n \in 0..MaxEntries}

\* the calls to make: a document to parse, or two maps to compare
ParseInputs == [fn : {"parseEnvContent"}, lines : LineSeqs, done : {FALSE}]
DiffInputs == [fn : {"diff"}, localVars : EnvMaps, remoteVars : EnvMaps, done : {FALSE}]

CallParseEnvContent ==
    /\ diffCall.fn = "parseEnvContent"
    /\ ~diffCall.done
    /\ LET content == JoinLines(diffCall.lines)
       IN  diffCall' = [fn |-> "parseEnvContent", lines |-> diffCall.lines,
                        done |-> TRUE, map |-> parseEnvContent(content)]
    /\ UNCHANGED <<rnd, encCalls, decCall, homeVars, logVars, clientVars, event, sent, relayVars>>

CallDiff ==
    /\ diffCall.fn = "diff"
    /\ ~diffCall.done
    /\ LET localVars == diffCall.localVars
           remoteVars == diffCall.remoteVars
       IN  diffCall' = [fn |-> "diff", localVars |-> localVars,
                        remoteVars |-> remoteVars, done |-> TRUE,
                        added |-> added(localVars, remoteVars),
                        removed |-> removed(localVars, remoteVars),
                        changed |-> changed(localVars, remoteVars),
                        inSync |-> inSync(localVars, remoteVars)]
    /\ UNCHANGED <<rnd, encCalls, decCall, homeVars, logVars, clientVars, event, sent, relayVars>>

DiffNext == CallParseEnvContent \/ CallDiff

-----------------------------------------------------------------------------
(* commands/diff.ts: the handler *)

\* the handler and the response to GET .../env: the comparison is printed,
\* nothing is stored
Diff(w, ok) ==
    /\ pc[w] = "idle"
    /\ LET config == loadProjectConfig(w)
           projectKey == loadProjectKey(config.projectId)
           result == relayLatest(config.projectId)
           remoteContent == decryptEnv(result.encryptedPayload, projectKey.value)
       IN  event' =
             IF ~config.exists \/ ~projectKey.ok \/ ~file[w].exists \/ ~ok
             THEN Report(w, "diff", "error", 0)
             ELSE IF noPayload(result) THEN Report(w, "diff", "notfound", 0)
             ELSE IF ~remoteContent.ok THEN Report(w, "diff", "failed", 0)
             ELSE Report(w, "diff", "success", result.version)
    /\ sent' = NoRequest
    /\ UNCHANGED <<rnd, harnessVars, clientVars, relayVars>>

-----------------------------------------------------------------------------
(* commands/rollback.ts *)

\* the handler and the response to GET .../env/{version}
RollbackFetch(w, version, ok) ==
    /\ pc[w] = "idle"
    /\ LET config == loadProjectConfig(w)
           projectKey == loadProjectKey(config.projectId)
           oldSnapshot == relaySnapshot(config.projectId, version)
           oldContent == decryptEnv(oldSnapshot.encryptedPayload, projectKey.value)
           currentContent == IF file[w].exists THEN file[w].content ELSE <<>>
       IN  IF version < 1 \/ ~config.exists \/ ~projectKey.ok \/ ~ok
              \/ noPayload(oldSnapshot)
           THEN /\ event' = Report(w, "rollback", "error", 0)
                /\ UNCHANGED <<pc, loc>>
           ELSE IF ~oldContent.ok
           THEN /\ event' = Report(w, "rollback", "failed", 0)
                /\ UNCHANGED <<pc, loc>>
           ELSE /\ event' = Report(w, "rollback", "diff", version)
                /\ Goto(w, "rollback.prompt",
                        [cmd |-> "rollback", config |-> config,
                         projectKey |-> projectKey.value, version |-> version,
                         oldContent |-> oldContent.value,
                         currentContent |-> currentContent])
    /\ sent' = NoRequest
    /\ UNCHANGED <<rnd, harnessVars, keystore, cfg, file, relayVars>>

\* the upload of a rollback made from the local file instead of the old snapshot
rollbackPayload_Current(oldContent, currentContent, projectKey, r) ==
    encryptEnv(currentContent, projectKey, r)

\* encryptEnv(oldContent, projectKey)
rollbackPayload(oldContent, currentContent, projectKey, r) ==
    encryptEnv(oldContent, projectKey, r)

\* message: `Rollback to v${version}`
rollbackBody(encryptedPayload, version) ==
    [encryptedPayload |-> encryptedPayload, message |-> Meta(<<"Rollback to v", version>>)]

\* the answer to "Rollback to vN? [y/N]", then encryptEnv, POST .../env and its response
RollbackAnswer(w, answer, ok) ==
    /\ pc[w] = "rollback.prompt"
    /\ IF declined(answer)
       THEN /\ event' = Report(w, "rollback", "cancelled", 0)
            /\ sent' = NoRequest
            /\ UNCHANGED <<rnd, file, relayVars>>
       ELSE /\ rnd < MaxRand
            /\ LET p == loc[w].config.projectId
                   encryptedPayload == rollbackPayload(loc[w].oldContent,
                                           loc[w].currentContent, loc[w].projectKey, rnd + 1)
                   body == rollbackBody(encryptedPayload, loc[w].version)
                   result == [version |-> relayVersion(p) + 1]
               IN  /\ rnd' = rnd + 1
                   /\ sent' = Sent("POST /api/projects/id/env", body)
                   /\ IF ok
                      THEN /\ relayVersion(p) < MaxVersion
                           /\ snapshots' = relayAppend(p, body)
                           /\ uploads' = [uploads EXCEPT ![p] = Append(@,
                                [plain |-> loc[w].oldContent,
                                 noted |-> result.version])]
                           /\ file' = [file EXCEPT ![w] = FileOf(loc[w].oldContent)]
                           /\ event' = Report(w, "rollback", "success", result.version)
                      ELSE /\ event' = Report(w, "rollback", "error", 0)
                           /\ UNCHANGED <<snapshots, uploads, file>>
            /\ UNCHANGED <<projects, pending, envelopes>>
    /\ Finish(w)
    /\ UNCHANGED <<harnessVars, keystore, cfg>>

-----------------------------------------------------------------------------
(* commands/switch.ts *)

\* the response to GET /api/projects, the new .gitignored.json, the key check
SwitchList(w, slug, ok) ==
    /\ pc[w] = "idle"
    /\ LET found == {i \in 1..Len(projects) : projects[i].slug = slug}
           project == projects[CHOOSE i \in found : TRUE]
       IN  IF ~ok \/ found = {}
           THEN /\ event' = Report(w, "switch", "error", 0)
                /\ UNCHANGED <<cfg, pc, loc>>
           ELSE /\ cfg' = [cfg EXCEPT ![w] =
                        [exists |-> TRUE, projectId |-> project.id,
                         projectSlug |-> project.slug]]
                /\ IF ~loadProjectKey(project.id).ok
                   THEN /\ event' = Report(w, "switch", "success", 0)
                        /\ UNCHANGED <<pc, loc>>
                   ELSE /\ event' = Quiet
                        /\ Goto(w, "switch.pull",
                                [cmd |-> "switch", projectId |-> project.id,
                                 projectKey |-> loadProjectKey(project.id).value])
    /\ sent' = NoRequest
    /\ UNCHANGED <<rnd, harnessVars, keystore, file, relayVars>>

\* the auto-pull: the response to GET .../env
SwitchPull(w, ok) ==
    /\ pc[w] = "switch.pull"
    /\ LET pullResult == relayLatest(loc[w].projectId)
           decrypted == decryptEnv(pullResult.encryptedPayload, loc[w].projectKey)
       IN  IF ~ok \/ noPayload(pullResult)
           THEN /\ event' = Report(w, "switch", "success", 0)
                /\ UNCHANGED file
           ELSE IF ~decrypted.ok
           THEN /\ event' = Report(w, "switch", "unverified", 0)
                /\ UNCHANGED file
           ELSE /\ file' = [file EXCEPT ![w] = FileOf(decrypted.value)]
                /\ event' = Report(w, "switch", "pulled", pullResult.version)
    /\ Finish(w)
    /\ sent' = NoRequest
    /\ UNCHANGED <<rnd, harnessVars, keystore, cfg, relayVars>>

-----------------------------------------------------------------------------
(* commands/start.ts: watch mode *)

\* watcher callbacks that have passed their guard and not yet returned
callbacks(l) == l.debouncing + l.prompting + Len(l.posting)

\* startWatcher(): fs.watch throws when there is no file, and the watcher is null
startWatcher(f) == f.exists

\* the watchers that are open once startWatcher() has run, `open` being open before
started(open, f) == IF startWatcher(f) THEN open + 1 ELSE open

\* if (watcher) watcher.close(): the watchers that are open afterwards
closed(l) == IF l.watcher THEN l.open - 1 ELSE l.open

\* the handler, the response to the initial GET .../env, setInterval, startWatcher
Start(w, ok) ==
    /\ pc[w] = "idle"
    /\ LET config == loadProjectConfig(w)
           projectKey == loadProjectKey(config.projectId)
           result == relayLatest(config.projectId)
           decrypted == decryptEnv(result.encryptedPayload, projectKey.value)
           pulled == ok /\ ~noPayload(result) /\ decrypted.ok
           written == IF pulled THEN FileOf(decrypted.value) ELSE file[w]
       IN  IF ~config.exists \/ ~projectKey.ok
           THEN /\ event' = Report(w, "start", "error", 0)
                /\ UNCHANGED <<file, pc, loc>>
           ELSE /\ file' = [file EXCEPT ![w] = written]
                /\ event' = Report(w, "start",
                                   IF pulled THEN "success"
                                   ELSE IF ok /\ ~noPayload(result) THEN "unverified"
                                   ELSE "none",
                                   IF pulled THEN result.version ELSE 0)
                /\ Goto(w, "watch",
                        [cmd |-> "start", config |-> config,
                         projectKey |-> projectKey.value,
                         localVersion |-> IF pulled THEN result.version ELSE 0,
                         isPushing |-> FALSE, isPrompting |-> FALSE,
                         polling |-> 0, pulling |-> 0, served |-> << >>,
                         watcher |-> startWatcher(written),
                         open |-> started(0, written),
                         debouncing |-> 0, prompting |-> 0, posting |-> <<>>])
    /\ sent' = NoRequest
    /\ UNCHANGED <<rnd, harnessVars, keystore, cfg, relayVars>>

\* a write to .env.shared starts a callback that passes its guard
passesGuard(w) ==
    pc[w] = "watch" /\ loc[w].watcher /\ ~(loc[w].isPushing \/ loc[w].isPrompting)

\* the fs.watch callback up to its debounce: the state of the command after a
\* write to .env.shared by the user
onFileEvent(w) ==
    IF passesGuard(w) THEN [loc EXCEPT ![w].debouncing = @ + 1] ELSE loc

\* the user saves .env.shared
Edit(w, c) ==
    /\ file[w].exists
    /\ passesGuard(w) => callbacks(loc[w]) < MaxCallbacks
    /\ file' = [file EXCEPT ![w] = FileOf(c)]
    /\ loc' = onFileEvent(w)
    /\ event' = Quiet
    /\ sent' = NoRequest
    /\ UNCHANGED <<rnd, harnessVars, keystore, cfg, pc, relayVars>>

\* the timer callback returning at its guard whatever the flags are
PollTick_AlwaysReturns(w) ==
    /\ pc[w] = "watch"
    /\ loc[w].polling + loc[w].pulling + Len(loc[w].served) < MaxPolls
    /\ UNCHANGED loc
    /\ event' = Quiet
    /\ sent' = NoRequest
    /\ UNCHANGED <<rnd, harnessVars, keystore, cfg, file, pc, relayVars>>

\* setInterval fires, whether or not an earlier tick is still waiting for its
\* responses: if (isPushing || isPrompting) return; GET .../env/version
PollTick(w) ==
    /\ pc[w] = "watch"
    /\ loc[w].polling + loc[w].pulling + Len(loc[w].served) < MaxPolls
    /\ IF loc[w].isPushing \/ loc[w].isPrompting
       THEN UNCHANGED loc
       ELSE loc' = [loc EXCEPT ![w].polling = @ + 1]
    /\ event' = Quiet
    /\ sent' = NoRequest
    /\ UNCHANGED <<rnd, harnessVars, keystore, cfg, file, pc, relayVars>>

\* the poll comparing with >= : an equal version is pulled again
PollVersion_AlsoEqual(w, ok) ==
    /\ pc[w] = "watch"
    /\ loc[w].polling > 0
    /\ LET versionResult == [version |-> relayVersion(loc[w].config.projectId)]
       IN  IF ok /\ versionResult.version >= loc[w].localVersion
           THEN /\ loc' = [loc EXCEPT ![w].polling = @ - 1, ![w].pulling = @ + 1]
                /\ event' = Report(w, "poll", "detected", versionResult.version)
           ELSE /\ loc' = [loc EXCEPT ![w].polling = @ - 1]
                /\ event' = IF ok THEN Report(w, "poll", "current", versionResult.version)
                            ELSE Quiet
    /\ sent' = NoRequest
    /\ UNCHANGED <<rnd, harnessVars, keystore, cfg, file, pc, relayVars>>

\* the response to a tick's GET .../env/version
PollVersion(w, ok) ==
    /\ pc[w] = "watch"
    /\ loc[w].polling > 0
    /\ LET versionResult == [version |-> relayVersion(loc[w].config.projectId)]
       IN  IF ok /\ versionResult.version > loc[w].localVersion
           THEN /\ loc' = [loc EXCEPT ![w].polling = @ - 1, ![w].pulling = @ + 1]
                /\ event' = Report(w, "poll", "detected", versionResult.version)
           ELSE /\ loc' = [loc EXCEPT ![w].polling = @ - 1]
                /\ event' = IF ok THEN Report(w, "poll", "current", versionResult.version)
                            ELSE Quiet
    /\ sent' = NoRequest
    /\ UNCHANGED <<rnd, harnessVars, keystore, cfg, file, pc, relayVars>>

\* the poll closing the watcher before it decrypts
PollPull_ClosesFirst(w, ok, wrote) ==
    /\ pc[w] = "watch"
    /\ loc[w].pulling > 0
    /\ LET pullResult == relayLatest(loc[w].config.projectId)
           decrypted == decryptEnv(pullResult.encryptedPayload, loc[w].projectKey)
       IN  IF ~ok \/ noPayload(pullResult)
           THEN /\ loc' = [loc EXCEPT ![w].pulling = @ - 1]
                /\ event' = Quiet
                /\ UNCHANGED file
           ELSE IF ~decrypted.ok
           THEN /\ loc' = [loc EXCEPT ![w].pulling = @ - 1, ![w].watcher = FALSE,
                                      ![w].open = closed(loc[w])]
                /\ event' = Report(w, "poll", "unverified", 0)
                /\ UNCHANGED file
           ELSE IF ~wrote
           THEN /\ loc' = [loc EXCEPT ![w].pulling = @ - 1, ![w].watcher = FALSE,
                                      ![w].open = closed(loc[w])]
                /\ event' = Report(w, "poll", "unwritten", 0)
                /\ UNCHANGED file
           ELSE /\ file' = [file EXCEPT ![w] = FileOf(decrypted.value)]
                /\ loc' = [loc EXCEPT ![w].pulling = @ - 1,
                                      ![w].localVersion = pullResult.version,
                                      ![w].watcher = startWatcher(FileOf(decrypted.value)),
                                      ![w].open = started(closed(loc[w]),
                                                          FileOf(decrypted.value))]
                /\ event' = Report(w, "poll", "success", pullResult.version)
    /\ sent' = NoRequest
    /\ UNCHANGED <<rnd, harnessVars, keystore, cfg, pc, relayVars>>

\* the poll starting a watcher without closing the one it has
PollPull_KeepsWatcher(w, ok, wrote) ==
    /\ pc[w] = "watch"
    /\ loc[w].pulling > 0
    /\ LET pullResult == relayLatest(loc[w].config.projectId)
           decrypted == decryptEnv(pullResult.encryptedPayload, loc[w].projectKey)
       IN  IF ~ok \/ noPayload(pullResult) \/ ~decrypted.ok
           THEN /\ loc' = [loc EXCEPT ![w].pulling = @ - 1]
                /\ event' = IF ok /\ ~noPayload(pullResult)
                            THEN Report(w, "poll", "unverified", 0) ELSE Quiet
                /\ UNCHANGED file
           ELSE IF ~wrote
           THEN /\ loc' = [loc EXCEPT ![w].pulling = @ - 1]
                /\ event' = Report(w, "poll", "unwritten", 0)
                /\ UNCHANGED file
           ELSE /\ file' = [file EXCEPT ![w] = FileOf(decrypted.value)]
                /\ loc' = [loc EXCEPT ![w].pulling = @ - 1,
                                      ![w].localVersion = pullResult.version,
                                      ![w].watcher = startWatcher(FileOf(decrypted.value)),
                                      ![w].open = started(loc[w].open,
                                                          FileOf(decrypted.value))]
                /\ event' = Report(w, "poll", "success", pullResult.version)
    /\ sent' = NoRequest
    /\ UNCHANGED <<rnd, harnessVars, keystore, cfg, pc, relayVars>>

\* the response to a tick's GET .../env: decryptEnv, watcher.close(),
\* writeFileSync (wrote: it did not throw), localVersion, startWatcher()
PollPull(w, ok, wrote) ==
    /\ pc[w] = "watch"
    /\ loc[w].pulling > 0
    /\ LET pullResult == relayLatest(loc[w].config.projectId)
           decrypted == decryptEnv(pullResult.encryptedPayload, loc[w].projectKey)
       IN  IF ~ok \/ noPayload(pullResult) \/ ~decrypted.ok
           THEN /\ loc' = [loc EXCEPT ![w].pulling = @ - 1]
                /\ event' = IF ok /\ ~noPayload(pullResult)
                            THEN Report(w, "poll", "unverified", 0) ELSE Quiet
                /\ UNCHANGED file
           ELSE IF ~wrote
           THEN /\ loc' = [loc EXCEPT ![w].pulling = @ - 1, ![w].watcher = FALSE,
                                      ![w].open = closed(loc[w])]
                /\ event' = Report(w, "poll", "unwritten", 0)
                /\ UNCHANGED file
           ELSE /\ file' = [file EXCEPT ![w] = FileOf(decrypted.value)]
                /\ loc' = [loc EXCEPT ![w].pulling = @ - 1,
                                      ![w].localVersion = pullResult.version,
                                      ![w].watcher = startWatcher(FileOf(decrypted.value)),
                                      ![w].open = started(closed(loc[w]),
                                                          FileOf(decrypted.value))]
                /\ event' = Report(w, "poll", "success", pullResult.version)
    /\ sent' = NoRequest
    /\ UNCHANGED <<rnd, harnessVars, keystore, cfg, pc, relayVars>>

\* the relay answers a tick's GET .../env; the response is on its way to the
\* session, and what the relay accepts meanwhile is not in it
PollServe(w) ==
    /\ pc[w] = "watch"
    /\ loc[w].pulling > 0
    /\ loc' = [loc EXCEPT ![w].pulling = @ - 1,
                          ![w].served = Append(@, relayLatest(loc[w].config.projectId))]
    /\ event' = Quiet
    /\ sent' = NoRequest
    /\ UNCHANGED <<rnd, harnessVars, keystore, cfg, file, pc, relayVars>>

\* the i-th of the responses on their way arrives: decryptEnv, watcher.close(),
\* writeFileSync (wrote: it did not throw), localVersion, startWatcher()
PollReceive(w, i, wrote) ==
    /\ pc[w] = "watch"
    /\ i \in DOMAIN loc[w].served
    /\ LET pullResult == loc[w].served[i]
           decrypted == decryptEnv(pullResult.encryptedPayload, loc[w].projectKey)
           others == SubSeq(loc[w].served, 1, i - 1)
                        \o SubSeq(loc[w].served, i + 1, Len(loc[w].served))
       IN  IF noPayload(pullResult) \/ ~decrypted.ok
           THEN /\ loc' = [loc EXCEPT ![w].served = others]
                /\ event' = IF ~noPayload(pullResult)
                            THEN Report(w, "poll", "unverified", 0) ELSE Quiet
                /\ UNCHANGED file
           ELSE IF ~wrote
           THEN /\ loc' = [loc EXCEPT ![w].served = others, ![w].watcher = FALSE,
                                      ![w].open = closed(loc[w])]
                /\ event' = Report(w, "poll", "unwritten", 0)
                /\ UNCHANGED file
           ELSE /\ file' = [file EXCEPT ![w] = FileOf(decrypted.value)]
                /\ loc' = [loc EXCEPT ![w].served = others,
                                      ![w].localVersion = pullResult.version,
                                      ![w].watcher = startWatcher(FileOf(decrypted.value)),
                                      ![w].open = started(closed(loc[w]),
                                                          FileOf(decrypted.value))]
                /\ event' = Report(w, "poll", "success", pullResult.version)
    /\ sent' = NoRequest
    /\ UNCHANGED <<rnd, harnessVars, keystore, cfg, pc, relayVars>>

\* a callback's debounce ends: isPrompting = true, "Local changes detected. Push?"
WatchDebounce(w) ==
    /\ pc[w] = "watch"
    /\ loc[w].debouncing > 0
    /\ loc' = [loc EXCEPT ![w].debouncing = @ - 1,
                          ![w].prompting = @ + 1,
                          ![w].isPrompting = TRUE]
    /\ event' = Report(w, "watch", "prompt", 0)
    /\ sent' = NoRequest
    /\ UNCHANGED <<rnd, harnessVars, keystore, cfg, file, pc, relayVars>>

\* the answer: on y/yes isPushing = true, read the file, encryptEnv, POST .../env
WatchAnswer(w, answer) ==
    /\ pc[w] = "watch"
    /\ loc[w].prompting > 0
    /\ IF declined(answer)
       THEN /\ loc' = [loc EXCEPT ![w].prompting = @ - 1,
                                  ![w].isPrompting = FALSE]
            /\ UNCHANGED rnd
       ELSE /\ rnd < MaxRand
            /\ rnd' = rnd + 1
            /\ LET content == file[w].content
                   encryptedPayload == encryptEnv(content, loc[w].projectKey, rnd + 1)
               IN  loc' = [loc EXCEPT ![w].prompting = @ - 1,
                                      ![w].isPushing = TRUE,
                                      ![w].posting = Append(@,
                                          [content |-> content,
                                           encryptedPayload |-> encryptedPayload])]
    /\ event' = Report(w, "watch", IF declined(answer) THEN "declined" ELSE "accepted", 0)
    /\ sent' = NoRequest
    /\ UNCHANGED <<harnessVars, keystore, cfg, file, pc, relayVars>>

\* the response to a callback's POST .../env; finally both flags are reset
WatchPost(w, ok) ==
    /\ pc[w] = "watch"
    /\ loc[w].posting # <<>>
    /\ LET p == loc[w].config.projectId
           request == Head(loc[w].posting)
           body == [encryptedPayload |-> request.encryptedPayload]
           result == [version |-> relayVersion(p) + 1]
           localVersion == IF ok THEN result.version ELSE loc[w].localVersion
       IN  /\ sent' = Sent("POST /api/projects/id/env", body)
           /\ IF ok
              THEN /\ relayVersion(p) < MaxVersion
                   /\ snapshots' = relayAppend(p, body)
                   /\ uploads' = [uploads EXCEPT ![p] = Append(@,
                        [plain |-> request.content, noted |-> localVersion])]
                   /\ event' = Report(w, "watch", "success", result.version)
              ELSE /\ event' = Report(w, "watch", "error", 0)
                   /\ UNCHANGED <<snapshots, uploads>>
           /\ loc' = [loc EXCEPT ![w].posting = Tail(@),
                                 ![w].localVersion = localVersion,
                                 ![w].isPushing = FALSE,
                                 ![w].isPrompting = FALSE]
    /\ UNCHANGED <<rnd, harnessVars, keystore, cfg, file, pc, projects, pending, envelopes>>

\* cleanup() without clearInterval and process.exit: only the watcher is closed
Stop_WatcherOnly(w) ==
    /\ pc[w] = "watch"
    /\ loc' = [loc EXCEPT ![w].watcher = FALSE, ![w].open = closed(loc[w])]
    /\ event' = Report(w, "start", "stopped", 0)
    /\ sent' = NoRequest
    /\ UNCHANGED <<rnd, harnessVars, keystore, cfg, file, pc, relayVars>>

\* SIGINT or SIGTERM: cleanup() and process.exit(0)
Stop(w) ==
    /\ pc[w] = "watch"
    /\ Finish(w)
    /\ event' = Report(w, "start", "stopped", 0)
    /\ sent' = NoRequest
    /\ UNCHANGED <<rnd, harnessVars, keystore, cfg, file, relayVars>>

-----------------------------------------------------------------------------

SystemInit ==
    /\ keystore = [p \in ProjectIds |-> NoFile]
    /\ cfg = [w \in Workspaces |-> NoFile]
    /\ file = [w \in Workspaces |-> NoFile]
    /\ pc = [w \in Workspaces |-> "idle"]
    /\ loc = [w \in Workspaces |-> NoLoc]
    /\ event = Quiet
    /\ projects = <<>>
    /\ snapshots = [p \in ProjectIds |-> <<>>]
    /\ pending = {}
    /\ envelopes = {}
    /\ sent = NoRequest
    /\ uploads = [p \in ProjectIds |-> <<>>]

\* the home directory of a machine nobody has logged in on
FreshHome ==
    /\ configFile = NoFile
    /\ envToken = Undefined
    /\ configCall = NoConfigCall
    /\ identity = NoFile
    /\ registered = <<>>
    /\ login = NoLogin

\* the home directory the project commands run in: the member has logged in,
\* the identity keypair is stored and its public key is registered
HomeInit ==
    /\ configFile = FileOf([authToken |-> "token-a", userId |-> "user-111",
                            email |-> "test@example.com"])
    /\ envToken = Undefined
    /\ configCall = NoConfigCall
    /\ identity = saveIdentityKeypair(generateKeypair(Me))
    /\ registered = <<encodeBase64(generateKeypair(Me).publicKey)>>
    /\ login = NoLogin

\* no log command has run; the project it would walk has no history
LogInit ==
    /\ logCall = NoLog
    /\ history = 0

Init ==
    /\ rnd = 0
    /\ CryptoInit
    /\ diffCall = NoCall
    /\ HomeInit
    /\ LogInit
    /\ SystemInit

\* a machine nobody has logged in on: no config file, no identity file
InitFresh ==
    /\ rnd = 0
    /\ CryptoInit
    /\ diffCall = NoCall
    /\ FreshHome
    /\ LogInit
    /\ SystemInit

\* the diff functions alone: the state the handler calls them in, with the
\* document or the two maps they are given
InitDiff ==
    /\ rnd = 0
    /\ CryptoInit
    /\ diffCall \in ParseInputs \/ diffCall \in DiffInputs
    /\ HomeInit
    /\ LogInit
    /\ SystemInit

Next ==
    \/ \E w \in Workspaces, ok \in BOOLEAN : New(w, ok)
    \/ \E p \in ProjectIds, u \in OtherUsers : MemberJoins(p, u)
    \/ \E p \in ProjectIds, c \in EnvContents : RemoteUpload(p, c)
    \/ \E w \in Workspaces, c \in EnvContents : Edit(w, c)
    \/ \E w \in Workspaces, force \in BOOLEAN, m \in Messages : PushStart(w, force, m)
    \/ \E w \in Workspaces, ok \in BOOLEAN : PushVersion(w, ok)
    \/ \E w \in Workspaces, a \in Answers : PushAnswer(w, a)
    \/ \E w \in Workspaces, ok \in BOOLEAN : PushPost(w, ok)
    \/ \E w \in Workspaces, ok \in BOOLEAN : Pull(w, ok)
    \/ \E w \in Workspaces, v \in 0..MaxVersion, ok \in BOOLEAN : RollbackFetch(w, v, ok)
    \/ \E w \in Workspaces, a \in Answers, ok \in BOOLEAN : RollbackAnswer(w, a, ok)
    \/ \E w \in Workspaces, slug \in Slugs, ok \in BOOLEAN : SwitchList(w, slug, ok)
    \/ \E w \in Workspaces, ok \in BOOLEAN : SwitchPull(w, ok)
    \/ \E w \in Workspaces, ok \in BOOLEAN : Start(w, ok)
    \/ \E w \in Workspaces : PollTick(w)
    \/ \E w \in Workspaces, ok \in BOOLEAN : PollVersion(w, ok)
    \/ \E w \in Workspaces, ok \in BOOLEAN, wrote \in BOOLEAN : PollPull(w, ok, wrote)
    \/ \E w \in Workspaces : WatchDebounce(w)
    \/ \E w \in Workspaces, a \in Answers : WatchAnswer(w, a)
    \/ \E w \in Workspaces, ok \in BOOLEAN : WatchPost(w, ok)
    \/ \E w \in Workspaces : Stop(w)
    \/ \E w \in Workspaces : PollServe(w)
    \/ \E w \in Workspaces, i \in 1..MaxPolls, wrote \in BOOLEAN : PollReceive(w, i, wrote)
    \/ ConfigNext
    \/ LoginNext
    \/ LogNext
    \/ \E w \in Workspaces, ok \in BOOLEAN : SyncList(w, ok)
    \/ \E w \in Workspaces, ok \in BOOLEAN : SyncKey(w, ok)

Spec == Init /\ [][Next]_vars

SpecCrypto == Init /\ [][CryptoNext]_vars

SpecDiff == InitDiff /\ [][DiffNext]_vars

SpecConfig == InitFresh /\ [][ConfigNext]_vars

SpecLogin == InitFresh /\ [][LoginNext]_vars

\* the log command in a workspace that is set up for a project
InitLog ==
    /\ rnd = 0
    /\ CryptoInit
    /\ diffCall = NoCall
    /\ HomeInit
    /\ LogInit
    /\ keystore = [p \in ProjectIds |-> NoFile]
    /\ cfg = [w \in Workspaces |-> [exists |-> TRUE, projectId |-> 1, projectSlug |-> 1]]
    /\ file = [w \in Workspaces |-> NoFile]
    /\ pc = [w \in Workspaces |-> "idle"]
    /\ loc = [w \in Workspaces |-> NoLoc]
    /\ event = Quiet
    /\ projects = <<>>
    /\ snapshots = [p \in ProjectIds |-> <<>>]
    /\ pending = {}
    /\ envelopes = {}
    /\ sent = NoRequest
    /\ uploads = [p \in ProjectIds |-> <<>>]

\* every page request is answered
SpecLog == InitLog /\ [][LogNext]_vars /\ WF_vars(\E ok \in BOOLEAN : LogPage(ok))


\* the commands that create a project, invite, upload and download, with two
\* other members joining
NextMembers ==
    \/ \E w \in Workspaces, ok \in BOOLEAN : New(w, ok)
    \/ \E w \in Workspaces, u \in Identities \ {Me}, role \in Roles, ok \in BOOLEAN :
          Invite(w, u, role, ok)
    \/ \E p \in ProjectIds, u \in Identities \ {Me} : MemberJoins(p, u)
    \/ \E p \in ProjectIds, c \in EnvContents : RemoteUpload(p, c)
    \/ \E w \in Workspaces, c \in EnvContents : Edit(w, c)
    \/ \E w \in Workspaces, force \in BOOLEAN, m \in Messages : PushStart(w, force, m)
    \/ \E w \in Workspaces, ok \in BOOLEAN : PushVersion(w, ok)
    \/ \E w \in Workspaces, a \in Answers : PushAnswer(w, a)
    \/ \E w \in Workspaces, ok \in BOOLEAN : PushPost(w, ok)
    \/ \E w \in Workspaces, ok \in BOOLEAN : Pull(w, ok)
    \/ \E w \in Workspaces, ok \in BOOLEAN : SyncList(w, ok)
    \/ \E w \in Workspaces, ok \in BOOLEAN : SyncKey(w, ok)

SpecMembers == Init /\ [][NextMembers]_vars

\* the commands that run the pending-key sync, a push (with --force, which has
\* no prompt) and a pull, with two other members joining
NextRetry ==
    \/ \E w \in Workspaces : New(w, TRUE)
    \/ \E p \in ProjectIds, u \in Identities \ {Me} : MemberJoins(p, u)
    \/ \E w \in Workspaces, m \in Messages : PushStart(w, TRUE, m)
    \/ \E w \in Workspaces, ok \in BOOLEAN : PushPost(w, ok)
    \/ \E w \in Workspaces, ok \in BOOLEAN : Pull(w, ok)
    \/ \E w \in Workspaces, ok \in BOOLEAN : SyncList(w, ok)
    \/ \E w \in Workspaces, ok \in BOOLEAN : SyncKey(w, ok)

\* the scheduling the retry of a key distribution relies on: a request gets
\* its answer, the member pulls again and again, and requests that are
\* repeated do not fail for ever
FairRetry ==
    \A w \in Workspaces :
        /\ WF_vars(\E ok \in BOOLEAN : PushPost(w, ok))
        /\ SF_vars(Pull(w, TRUE))
        /\ SF_vars(SyncList(w, TRUE))
        /\ SF_vars(SyncKey(w, TRUE))

SpecRetry == Init /\ [][NextRetry]_vars /\ FairRetry

\* the commands and the local-change handler of a watch session, without the
\* timer poll (which uploads nothing; SpecWatch has it)
NextCommands ==
    \/ \E w \in Workspaces, ok \in BOOLEAN : New(w, ok)
    \/ \E p \in ProjectIds, u \in OtherUsers : MemberJoins(p, u)
    \/ \E p \in ProjectIds, c \in EnvContents : RemoteUpload(p, c)
    \/ \E w \in Workspaces, c \in EnvContents : Edit(w, c)
    \/ \E w \in Workspaces, force \in BOOLEAN, m \in Messages : PushStart(w, force, m)
    \/ \E w \in Workspaces, ok \in BOOLEAN : PushVersion(w, ok)
    \/ \E w \in Workspaces, a \in Answers : PushAnswer(w, a)
    \/ \E w \in Workspaces, ok \in BOOLEAN : PushPost(w, ok)
    \/ \E w \in Workspaces, ok \in BOOLEAN : Pull(w, ok)
    \/ \E w \in Workspaces, v \in 0..MaxVersion, ok \in BOOLEAN : RollbackFetch(w, v, ok)
    \/ \E w \in Workspaces, a \in Answers, ok \in BOOLEAN : RollbackAnswer(w, a, ok)
    \/ \E w \in Workspaces, slug \in Slugs, ok \in BOOLEAN : SwitchList(w, slug, ok)
    \/ \E w \in Workspaces, ok \in BOOLEAN : SwitchPull(w, ok)
    \/ \E w \in Workspaces, ok \in BOOLEAN : Start(w, ok)
    \/ \E w \in Workspaces : WatchDebounce(w)
    \/ \E w \in Workspaces, a \in Answers : WatchAnswer(w, a)
    \/ \E w \in Workspaces, ok \in BOOLEAN : WatchPost(w, ok)
    \/ \E w \in Workspaces : Stop(w)
    \/ \E w \in Workspaces, ok \in BOOLEAN : SyncList(w, ok)
    \/ \E w \in Workspaces, ok \in BOOLEAN : SyncKey(w, ok)

SpecCommands == Init /\ [][NextCommands]_vars

\* one project, once created, and its watch session: the timer poll and the
\* local-change handler, with uploads from other machines
NextWatch ==
    \/ \E w \in Workspaces : New(w, TRUE)
    \/ \E p \in ProjectIds, c \in EnvContents : RemoteUpload(p, c)
    \/ \E w \in Workspaces, c \in EnvContents : Edit(w, c)
    \/ \E w \in Workspaces, ok \in BOOLEAN : Start(w, ok)
    \/ \E w \in Workspaces : PollTick(w)
    \/ \E w \in Workspaces, ok \in BOOLEAN : PollVersion(w, ok)
    \/ \E w \in Workspaces, ok \in BOOLEAN, wrote \in BOOLEAN : PollPull(w, ok, wrote)
    \/ \E w \in Workspaces : WatchDebounce(w)
    \/ \E w \in Workspaces, a \in Answers : WatchAnswer(w, a)
    \/ \E w \in Workspaces, ok \in BOOLEAN : WatchPost(w, ok)
    \/ \E w \in Workspaces : Stop(w)

SpecWatch == Init /\ [][NextWatch]_vars

\* the scheduling of a watch session whose timer keeps firing and whose
\* requests and writes do not fail for ever: setInterval fires again and
\* again, every request is answered, and among the answers to repeated
\* requests there are successful ones
FairWatch ==
    \A w \in Workspaces :
        /\ WF_vars(PollTick(w))
        /\ WF_vars(\E ok \in BOOLEAN : PollVersion(w, ok))
        /\ WF_vars(\E ok \in BOOLEAN, wrote \in BOOLEAN : PollPull(w, ok, wrote))
        /\ SF_vars(PollVersion(w, TRUE))
        /\ SF_vars(PollPull(w, TRUE, TRUE))

\* the watch session as far as catching up goes: the timer poll, uploads from
\* other machines, and the user's edits up to the prompt they lead to
NextConverge ==
    \/ \E w \in Workspaces : New(w, TRUE)
    \/ \E p \in ProjectIds, c \in EnvContents : RemoteUpload(p, c)
    \/ \E w \in Workspaces, c \in EnvContents : Edit(w, c)
    \/ \E w \in Workspaces, ok \in BOOLEAN : Start(w, ok)
    \/ \E w \in Workspaces : PollTick(w)
    \/ \E w \in Workspaces, ok \in BOOLEAN : PollVersion(w, ok)
    \/ \E w \in Workspaces, ok \in BOOLEAN, wrote \in BOOLEAN : PollPull(w, ok, wrote)
    \/ \E w \in Workspaces : WatchDebounce(w)
    \/ \E w \in Workspaces : Stop(w)

SpecConverge == Init /\ [][NextConverge]_vars /\ FairWatch

\* the watch session with the responses to the poll's pull requests on their
\* way: the relay may accept an upload between answering and the arrival
NextRace ==
    \/ NextWatch
    \/ \E w \in Workspaces : PollServe(w)
    \/ \E w \in Workspaces, i \in 1..MaxPolls, wrote \in BOOLEAN : PollReceive(w, i, wrote)

SpecRace == Init /\ [][NextRace]_vars

\* the operations that fetch and decrypt a snapshot (pull, diff, rollback,
\* switch and the watch session) against a relay that may also serve
\* snapshots which do not authenticate under the local project key; no
\* member is waiting for a key
NextUntrusted ==
    \/ NextWatch
    \/ \E p \in ProjectIds, c \in EnvContents : ForeignUpload(p, c)
    \/ \E w \in Workspaces, ok \in BOOLEAN : Pull(w, ok)
    \/ \E w \in Workspaces, ok \in BOOLEAN : Diff(w, ok)
    \/ \E w \in Workspaces, v \in 0..MaxVersion, ok \in BOOLEAN : RollbackFetch(w, v, ok)
    \/ \E w \in Workspaces, a \in Answers, ok \in BOOLEAN : RollbackAnswer(w, a, ok)
    \/ \E w \in Workspaces, slug \in Slugs, ok \in BOOLEAN : SwitchList(w, slug, ok)
    \/ \E w \in Workspaces, ok \in BOOLEAN : SwitchPull(w, ok)
    \/ \E w \in Workspaces, ok \in BOOLEAN : SyncList(w, ok)

SpecUntrusted == Init /\ [][NextUntrusted]_vars

\* the commands that write .env.shared from a snapshot (pull, switch, rollback,
\* start and its timer poll), with the user's edits, against a relay that may
\* also serve snapshots which do not authenticate under the local project key
NextWriters ==
    \/ \E w \in Workspaces : New(w, TRUE)
    \/ \E p \in ProjectIds, c \in EnvContents : RemoteUpload(p, c)
    \/ \E p \in ProjectIds, c \in EnvContents : ForeignUpload(p, c)
    \/ \E w \in Workspaces, c \in EnvContents : Edit(w, c)
    \/ \E w \in Workspaces, ok \in BOOLEAN : Pull(w, ok)
    \/ \E w \in Workspaces, ok \in BOOLEAN : SyncList(w, ok)
    \/ \E w \in Workspaces, v \in 0..MaxVersion, ok \in BOOLEAN : RollbackFetch(w, v, ok)
    \/ \E w \in Workspaces, a \in Answers, ok \in BOOLEAN : RollbackAnswer(w, a, ok)
    \/ \E w \in Workspaces, slug \in Slugs, ok \in BOOLEAN : SwitchList(w, slug, ok)
    \/ \E w \in Workspaces, ok \in BOOLEAN : SwitchPull(w, ok)
    \/ \E w \in Workspaces, ok \in BOOLEAN : Start(w, ok)
    \/ \E w \in Workspaces : PollTick(w)
    \/ \E w \in Workspaces, ok \in BOOLEAN : PollVersion(w, ok)
    \/ \E w \in Workspaces, ok \in BOOLEAN, wrote \in BOOLEAN : PollPull(w, ok, wrote)
    \/ \E w \in Workspaces : Stop(w)

SpecWriters == Init /\ [][NextWriters]_vars

-----------------------------------------------------------------------------
(* Claims about the envelope cryptography, checked under SpecCrypto *)

DecOf == encCalls[decCall.of]

\* C2: for every plaintext p (the empty string included) and every project
\* key k, decryptEnv(encryptEnv(p, k), k) returns exactly p.
C2_EnvRoundTrip ==
    (decCall.fn = "decryptEnv" /\ decCall.key = DecOf.key)
        => decCall.result = Ok(DecOf.plaintext)

C2_Witness ==
    /\ decCall.fn = "decryptEnv"
    /\ decCall.key = DecOf.key
    /\ DecOf.plaintext = <<>>
    /\ decCall.result.ok

\* C3: for every project key pk and identities A (sender) and B (recipient),
\* A = B included, decryptProjectKey(encryptProjectKey(pk, B.public, A.secret),
\* A.public, B.secret) returns exactly pk.
C3_KeyWrapRoundTrip ==
    (/\ decCall.fn = "decryptProjectKey"
     /\ decCall.senderPub = DecOf.sender
     /\ decCall.recipientSec = DecOf.recipient)
        => decCall.result = Ok(DecOf.key)

C3_Witness ==
    /\ decCall.fn = "decryptProjectKey"
    /\ decCall.senderPub = DecOf.sender
    /\ decCall.recipientSec = DecOf.recipient
    /\ DecOf.sender # DecOf.recipient
    /\ decCall.result = Ok(DecOf.key)

\* C4: decryption fails closed on wrong key material: decryptEnv under a
\* project key other than the encrypting one, and decryptProjectKey of an
\* envelope wrapped by A for B under a third identity's secret key (with A's
\* public key) or under a public key other than A's (with B's secret key),
\* raise an error and return no value.
C4_FailsClosed ==
    /\ (decCall.fn = "decryptEnv" /\ decCall.key # DecOf.key)
            => (~decCall.result.ok /\ decCall.result = Err(decCall.result.error))
    /\ (/\ decCall.fn = "decryptProjectKey"
        /\ decCall.senderPub = DecOf.sender
        /\ decCall.recipientSec \notin {DecOf.sender, DecOf.recipient})
            => (~decCall.result.ok /\ decCall.result = Err(decCall.result.error))
    /\ (/\ decCall.fn = "decryptProjectKey"
        /\ decCall.recipientSec = DecOf.recipient
        /\ decCall.senderPub # DecOf.sender)
            => (~decCall.result.ok /\ decCall.result = Err(decCall.result.error))

C4_Witness ==
    /\ decCall.fn = "decryptProjectKey"
    /\ DecOf.sender # DecOf.recipient
    /\ decCall.senderPub = DecOf.sender
    /\ decCall.recipientSec \notin {DecOf.sender, DecOf.recipient}
    /\ ~decCall.result.ok

SwappedRoles ==
    /\ decCall.fn = "decryptProjectKey"
    /\ DecOf.sender # DecOf.recipient
    /\ decCall.senderPub = DecOf.recipient
    /\ decCall.recipientSec = DecOf.sender

\* C5 as stated: for e = wrap_key(pk, B.public, A.secret) with A and B
\* distinct, unwrap_key(e, B.public, A.secret) fails and returns no key.
C5_SwappedRolesFail == SwappedRoles => ~decCall.result.ok

\* C5 as amended: for e = wrap_key(pk, B.public, A.secret) with A and B
\* distinct, unwrap_key(e, B.public, A.secret) returns pk: the shared key of
\* (B.public, A.secret) is the shared key of (A.public, B.secret).
C5_SwappedRolesUnwrap == SwappedRoles => decCall.result = Ok(DecOf.key)

C5_Witness == SwappedRoles /\ decCall.result.ok

SameInputs(i, j) ==
    [encCalls[i] EXCEPT !.out = 0] = [encCalls[j] EXCEPT !.out = 0]

\* C6: nonce freshness: two calls of encryptEnv with the same plaintext and
\* key, or of encryptProjectKey with the same key, recipient and sender,
\* return different outputs, and each output decrypts to the original input.
C6_NonceFreshness ==
    /\ \A i \in DOMAIN encCalls : \A j \in DOMAIN encCalls :
            (i # j /\ SameInputs(i, j)) => encCalls[i].out # encCalls[j].out
    /\ \A i \in DOMAIN encCalls :
            IF encCalls[i].fn = "encryptEnv"
            THEN decryptEnv(encCalls[i].out, encCalls[i].key)
                    = Ok(encCalls[i].plaintext)
            ELSE decryptProjectKey(encCalls[i].out,
                    generateKeypair(encCalls[i].sender).publicKey,
                    generateKeypair(encCalls[i].recipient).secretKey)
                    = Ok(encCalls[i].key)

C6_Witness ==
    /\ Len(encCalls) >= 2
    /\ encCalls[1].fn = "encryptEnv"
    /\ SameInputs(1, 2)
    /\ encCalls[1].out # encCalls[2].out

-----------------------------------------------------------------------------
(* What the relay is sent *)

\* the bytes are a nonce followed by one box sealed under a key of kind keyKind
SealedUnder(bytes, keyKind) ==
    /\ Len(bytes) = NonceLen + 1
    /\ \A i \in 1..NonceLen : bytes[i].kind = "random"
    /\ bytes[NonceLen + 1].kind = "secretbox"
    /\ bytes[NonceLen + 1].key[1].kind = keyKind

\* a symmetric ciphertext of environment content
IsEnvCiphertext(field) ==
    /\ field.kind = "base64"
    /\ SealedUnder(field.bytes, "projectKey")
    /\ \A i \in 1..Len(field.bytes[NonceLen + 1].msg) :
          field.bytes[NonceLen + 1].msg[i].kind = "byte"

\* a key envelope: the project key boxed under the shared key of two identities
IsKeyEnvelope(field) ==
    /\ field.kind = "base64"
    /\ SealedUnder(field.bytes, "sharedKey")
    /\ Len(field.bytes[NonceLen + 1].msg) = 1
    /\ field.bytes[NonceLen + 1].msg[1].kind = "projectKey"

\* a public key
IsPublicKey(field) ==
    /\ field.kind = "base64"
    /\ Len(field.bytes) = 1
    /\ field.bytes[1].kind = "publicKey"

IsMetadata(field) == field.kind = "meta"

\* C1: every request body sent to the relay, by new, push, rollback, watch
\* mode and pending-key sync, carries in each of its fields a symmetric
\* ciphertext of environment content, a key envelope, a public key or
\* metadata, and so no project key, identity secret key or plaintext content.
C1_RelayBlind ==
    \A f \in DOMAIN sent.body :
        \/ IsMetadata(sent.body[f])
        \/ IsEnvCiphertext(sent.body[f])
        \/ IsKeyEnvelope(sent.body[f])
        \/ IsPublicKey(sent.body[f])

\* a non-empty environment is uploaded after the project key was shared with
\* another member
C1_Witness ==
    /\ event.cmd = "push"
    /\ sent.path = "POST /api/projects/id/env"
    /\ IsEnvCiphertext(sent.body.encryptedPayload)
    /\ sent.body.encryptedPayload.bytes[NonceLen + 1].msg # <<>>
    /\ \E e \in envelopes : e.user # Me /\ IsKeyEnvelope(e.encryptedProjectKey)

-----------------------------------------------------------------------------
(* Versions, pull and rollback *)

UploadCommands == {"push", "rollback", "watch"}

\* the last step was a successful run (or upload) of command cmd
Succeeded(cmd) == event.cmd = cmd /\ event.result = "success"

\* the project of the workspace the last step reported for
EventProject == cfg[event.w].projectId

\* C7: the k-th accepted upload of a project, whether made by push, rollback
\* or watch mode, is returned and recorded as version k (one more than the
\* upload before it, starting at 1); the number is the relay's: no upload
\* request carries a version, and what the uploader reports is the relay's
\* latest version.
C7_VersionsAssignedByRelay ==
    /\ \A p \in ProjectIds :
          /\ Len(uploads[p]) = relayVersion(p)
          /\ \A k \in 1..Len(uploads[p]) : uploads[p][k].noted = k
    /\ sent.path = "POST /api/projects/id/env" => "version" \notin DOMAIN sent.body
    /\ (event.cmd \in UploadCommands /\ event.result = "success")
          => event.version = relayVersion(EventProject)

\* watch mode makes the third upload of a project
C7_Witness ==
    /\ Succeeded("watch")
    /\ event.version = 3
    /\ uploads[EventProject][3].noted = 3

\* C8: a successful pull leaves in .env.shared the plaintext of the upload
\* with the highest version at the relay, and reports that version.
C8_PullWritesLatest ==
    Succeeded("pull") =>
        /\ relayVersion(EventProject) > 0
        /\ event.version = relayVersion(EventProject)
        /\ file[event.w] = FileOf(uploads[EventProject][relayVersion(EventProject)].plain)

\* a pull of version 2, whose content is not empty and differs from version 1's
C8_Witness ==
    /\ Succeeded("pull")
    /\ event.version = 2
    /\ file[event.w].content # <<>>
    /\ uploads[EventProject][1].plain # uploads[EventProject][2].plain

\* the version a rollback asked for, from the message it uploaded
RolledBackTo == sent.body.message.v[2]

\* the decrypted content of version v of project p
ContentOf(p, v) == decryptEnv(snapshots[p][v].encryptedPayload, loadProjectKey(p).value)

\* C9 as stated: a successful rollback to version N creates version N + 1.
C9_RollbackCreatesNPlus1 ==
    Succeeded("rollback") => event.version = RolledBackTo + 1

HistoryKept ==
    \A p \in ProjectIds :
        /\ Len(snapshots'[p]) \in {Len(snapshots[p]), Len(snapshots[p]) + 1}
        /\ \A v \in 1..Len(snapshots[p]) : snapshots'[p][v] = snapshots[p][v]

RollbackAppended ==
    Succeeded("rollback") =>
        /\ event.version = relayVersion(EventProject)
        /\ RolledBackTo \in 1..(event.version - 1)
        /\ ContentOf(EventProject, event.version).ok
        /\ ContentOf(EventProject, event.version) = ContentOf(EventProject, RolledBackTo)
        /\ ContentOf(EventProject, RolledBackTo).value = uploads[EventProject][RolledBackTo].plain

\* C9, amended: a successful rollback to version N creates the version after
\* the relay's latest one (N + 1 only when N is the latest), whose decrypted
\* content equals version N's; no step changes or removes an existing
\* snapshot, a step appends at most one.
C9_RollbackAppendsCopy == []RollbackAppended /\ [][HistoryKept]_vars

\* a rollback to version 1 becomes version 3, and versions 1 and 2 differ
C9_Witness ==
    /\ Succeeded("rollback")
    /\ RolledBackTo = 1
    /\ event.version = 3
    /\ uploads[EventProject][1].plain # uploads[EventProject][2].plain

\* C10: a push without force asks for confirmation exactly when the version
\* check reports a relay version greater than the recorded last-pushed
\* version and that recorded version is greater than 0; a push with force
\* neither checks nor asks and goes straight to the upload.
C10_ConflictGate ==
    \A w \in Workspaces :
        /\ pc[w] \in {"push.version", "push.prompt"} => ~loc[w].force
        /\ (event.w = w /\ event.cmd = "push"
                /\ event.result \in {"warn", "checked", "unchecked"})
              => LET recorded == IF "lastPushedVersion" \in DOMAIN cfg[w]
                                 THEN cfg[w].lastPushedVersion ELSE 0
                     current == relayVersion(cfg[w].projectId)
                 IN  /\ pc[w] \in {"push.prompt", "push.post"}
                     /\ pc[w] = "push.prompt"
                          <=> (event.result # "unchecked"
                               /\ current > recorded /\ recorded > 0)

\* relay version 2, recorded version 1, no force: the push is at its prompt
C10_Witness ==
    \E w \in Workspaces :
        /\ pc[w] = "push.prompt"
        /\ event.result = "warn"
        /\ relayVersion(cfg[w].projectId) = 2
        /\ cfg[w].lastPushedVersion = 1

-----------------------------------------------------------------------------
(* C11: declining the conflict confirmation aborts the push *)

\* a push that has not reached its upload: started, checking or at its prompt
BeforeUpload(w) == pc[w] \in {"push.version", "push.prompt"}

\* what a push may change: the relay's snapshots and envelopes, the recorded
\* version, the local file
PushEffects == <<snapshots, uploads, envelopes, pending, projects, cfg, file, keystore>>

\* C11: the step that prints "Push cancelled" ends the command (so no key sync
\* follows), sends nothing and leaves the relay's snapshots, versions and
\* envelopes, the recorded last-pushed version and the local file as they
\* were; the steps that led the push to its prompt changed none of them
\* either.
C11_DeclineHasNoEffect ==
    [][\A w \in Workspaces :
        /\ (event'.w = w /\ event'.cmd = "push" /\ event'.result = "cancelled")
             => /\ pc[w] = "push.prompt" /\ pc'[w] = "idle"
                /\ sent' = NoRequest
                /\ UNCHANGED PushEffects
        /\ (pc[w] = "push.prompt" /\ pc'[w] = "idle")
             => event'.result = "cancelled"
        /\ (pc'[w] # pc[w] /\ BeforeUpload(w)') => (sent' = NoRequest /\ UNCHANGED PushEffects)
      ]_vars

\* a push has just been cancelled at its prompt: the relay is at version 2,
\* the recorded version is 1
C11_Witness ==
    /\ event.cmd = "push" /\ event.result = "cancelled"
    /\ pc[event.w] = "idle"
    /\ relayVersion(EventProject) = 2
    /\ cfg[event.w].lastPushedVersion = 1

-----------------------------------------------------------------------------
(* C12: a push whose version check failed *)

\* the version request of workspace w's push has just failed
Unchecked(w) == event.w = w /\ event.cmd = "push" /\ event.result = "unchecked"

\* after a failed version check the push stands at its upload, not forced and
\* not at the prompt
UncheckedProceeds ==
    \A w \in Workspaces :
        Unchecked(w) => pc[w] = "push.post" /\ ~loc[w].force

\* the upload step of a push asks nothing: it encrypts the content read from
\* the file, sends it, and either fails or records the version the relay
\* assigned
UploadRecords ==
    \A w \in Workspaces :
        (pc[w] = "push.post" /\ pc'[w] # pc[w]) =>
            /\ sent'.path = "POST /api/projects/id/env"
            /\ decryptEnv(sent'.body.encryptedPayload, loc[w].projectKey)
                 = Ok(loc[w].envContent)
            /\ \/ pc'[w] = "idle" /\ event'.result = "error"
                    /\ UNCHANGED <<cfg, snapshots>>
               \/ /\ pc'[w] = "sync.list" /\ event'.result = "success"
                  /\ relayVersion(cfg[w].projectId)' = relayVersion(cfg[w].projectId) + 1
                  /\ cfg'[w].lastPushedVersion = relayVersion(cfg[w].projectId)'

\* C12: when the version request of a non-forced push fails, the push goes on
\* to encrypt and upload without a prompt, and a successful upload records
\* the version the relay assigned.
C12_FailedCheckProceeds == []UncheckedProceeds /\ [][UploadRecords]_vars

\* the version request failed in the very situation where a successful one
\* would have asked: the relay is ahead of a recorded version above 0
C12_Witness ==
    \E w \in Workspaces :
        /\ Unchecked(w)
        /\ serverIsAhead([version |-> relayVersion(loc[w].config.projectId)],
                         loc[w].config)

-----------------------------------------------------------------------------
(* C13: a pull against a project without a snapshot *)

\* workspace w has just run the pull command
Pulled(w) == event.w = w /\ event.cmd = "pull"

\* C13: a pull of a project whose relay history is empty fails (with the
\* not-found message whenever the relay answered) and leaves the local file
\* as it was; the not-found message is printed in no other case.
C13_PullWithoutSnapshot ==
    [][\A w \in Workspaces :
        Pulled(w)' =>
            /\ (cfg[w].exists /\ relayVersion(cfg[w].projectId) = 0)
                 => /\ event'.result \in {"notfound", "error"}
                    /\ file' = file
                    /\ pc'[w] = "idle"
            /\ event'.result = "notfound"
                 => /\ cfg[w].exists /\ relayVersion(cfg[w].projectId) = 0
                    /\ file' = file
      ]_vars

\* the not-found outcome with a local file in place
C13_Witness ==
    \E w \in Workspaces :
        /\ Pulled(w) /\ event.result = "notfound"
        /\ file[w].exists /\ Len(file[w].content) > 0
        /\ relayVersion(cfg[w].projectId) = 0

-----------------------------------------------------------------------------
(* C14: failed authentication of a fetched snapshot *)

\* the last step fetched a snapshot and decryptEnv rejected it
AuthFailed == event.result \in {"failed", "unverified"}

\* the last step printed an error and ended its operation with a failure
HardError == event.result = "failed" /\ pc[event.w] = "idle"

\* C14: whenever the decryption of a fetched snapshot fails authentication,
\* in pull, diff, rollback, switch's auto-pull, the watch loop's initial pull
\* or its timer poll, the operation is aborted and a failure is reported.
C14_AuthFailuresAreHardErrors == AuthFailed => HardError

-----------------------------------------------------------------------------
(* C15: the pending-key sync *)

\* the key sync of workspace w takes a step
SyncStep(w) ==
    /\ pc[w] \in {"sync.list", "sync.key"}
    /\ pc'[w] # pc[w] \/ loc'[w] # loc[w]

\* the envelopes the relay accepted in this step
Accepted == envelopes' \ envelopes

\* the count the step reports: "Shared project key with n new members"
ReportedShared ==
    IF event'.cmd = "sync" /\ event'.result = "shared" THEN event'.version ELSE 0

\* the list step hands every pending member the relay returned to the loop,
\* or ends the sync
ListStep(w) ==
    /\ pc'[w] \in {"sync.key", "idle"}
    /\ pc'[w] = "sync.key" =>
          /\ loc'[w].todo = relayPendingKeys(loc[w].projectId)
          /\ loc'[w].shared = 0
    /\ (event'.result = "listed" /\ event'.version > 0) => pc'[w] = "sync.key"
    /\ Accepted = {}

\* one turn of the loop is the one attempt for the member at the head of the
\* list: an envelope for that member is sent, the member leaves the list
\* whether or not the upload succeeded, and the count grows by the uploads
\* accepted
KeyStep(w) ==
    LET member == Head(loc[w].todo)
        envelope == sent'.body.encryptedProjectKey
    IN  /\ sent'.path = "POST /api/projects/id/members/userId/key"
        /\ decryptProjectKey(envelope, loadIdentityKeypair.publicKey,
                             generateKeypair(member.userId).secretKey)
             = Ok(loc[w].projectKey)
        /\ Accepted \subseteq {[project |-> loc[w].projectId, user |-> member.userId,
                                encryptedProjectKey |-> envelope]}
        /\ IF Len(loc[w].todo) > 1
           THEN /\ pc'[w] = "sync.key"
                /\ loc'[w].todo = Tail(loc[w].todo)
                /\ loc'[w].shared = loc[w].shared + Cardinality(Accepted)
           ELSE /\ pc'[w] = "idle"
                /\ ReportedShared = loc[w].shared + Cardinality(Accepted)

\* C15: every pending member the relay returned gets exactly one
\* wrap-and-upload attempt whatever happened to the others, the reported
\* count is the number of accepted uploads, and no step of the sync reports
\* an error or touches what the enclosing push or pull did.
C15_SyncPerMember ==
    [][\A w \in Workspaces :
        SyncStep(w) =>
            /\ IF pc[w] = "sync.list" THEN ListStep(w) ELSE KeyStep(w)
            /\ event'.result \notin {"error", "failed"}
            /\ UNCHANGED <<cfg, file, snapshots, keystore>>
      ]_vars

\* the turn for the first of two pending members has just failed and the loop
\* goes on with the second
C15_Witness ==
    \E w \in Workspaces :
        /\ pc[w] = "sync.key"
        /\ sent.path = "POST /api/projects/id/members/userId/key"
        /\ loc[w].shared = 0
        /\ Len(loc[w].todo) = 1 /\ loc[w].todo[1].userId = 3
        /\ <<loc[w].projectId, 2>> \in pending

-----------------------------------------------------------------------------
(* C16: push and pull run the pending-key sync *)

\* a push or a pull that has just transferred its snapshot has its request
\* for the pending members under way, for the project it worked on
SyncAsked ==
    (Succeeded("push") \/ Succeeded("pull")) =>
        /\ pc[event.w] = "sync.list"
        /\ loc[event.w].cmd = event.cmd
        /\ loc[event.w].projectId = EventProject

\* when the relay answers that request, the members it names are the ones the
\* loop works through, starting with the first
SyncAttempts ==
    \A w \in Workspaces :
        /\ (pc[w] = "sync.list" /\ event'.w = w /\ event'.result = "listed")
             => IF relayPendingKeys(loc[w].projectId) = <<>>
                THEN pc'[w] = "idle"
                ELSE /\ pc'[w] = "sync.key"
                     /\ loc'[w].todo = relayPendingKeys(loc[w].projectId)
        /\ (pc[w] = "sync.key" /\ (pc'[w] # pc[w] \/ loc'[w] # loc[w]))
             => /\ sent'.path = "POST /api/projects/id/members/userId/key"
                /\ IsKeyEnvelope(sent'.body.encryptedProjectKey)

\* C16: every push and every pull (the commands, once the snapshot has been
\* uploaded or written to the file) asks the relay for the pending members
\* and attempts the distribution to each of them.
C16_SyncOnPushAndPull == []SyncAsked /\ [][SyncAttempts]_vars

\* a pull has handed a pending member to the loop
C16_Witness ==
    \E w \in Workspaces :
        /\ pc[w] = "sync.key" /\ loc[w].cmd = "pull"
        /\ event.result = "listed" /\ event.version = 2

-----------------------------------------------------------------------------
(* C17: the invitation *)

\* C17: an invitation that has just been sent carried a KeyEnvelope: the
\* ProjectKey wrapped by the inviting workspace for the invitee's public
\* identity, and nothing else of the key.
C17_InviteUploadsEnvelope ==
    (event.cmd = "invite" /\ event.result = "success") =>
        /\ "encryptedProjectKey" \in DOMAIN sent.body
        /\ IsKeyEnvelope(sent.body.encryptedProjectKey)
        /\ decryptProjectKey(sent.body.encryptedProjectKey,
                             loadIdentityKeypair.publicKey,
                             generateKeypair(event.version).secretKey)
             = loadProjectKey(EventProject)

-----------------------------------------------------------------------------
(* C18: the creator's envelope at project creation *)

\* the request of the last step was the one that creates a project
CreateSent == sent.path = "POST /api/projects"

\* what the creator's own keypair unwraps from the envelope of that request
SelfUnwrapped ==
    decryptProjectKey(sent.body.encryptedProjectKey,
                      loadIdentityKeypair.publicKey, loadIdentityKeypair.secretKey)

\* C18: the create request carries a KeyEnvelope wrapped with the creator as
\* sender and as recipient (it opens under the creator's own keypair and
\* with no other identity in either role), and when the project has been
\* created it unwraps to exactly the ProjectKey stored locally for it.
C18_CreatorSelfWrap ==
    CreateSent =>
        /\ IsKeyEnvelope(sent.body.encryptedProjectKey)
        /\ SelfUnwrapped.ok
        /\ \A u \in Identities \ {Me} :
              /\ ~decryptProjectKey(sent.body.encryptedProjectKey,
                     generateKeypair(u).publicKey, loadIdentityKeypair.secretKey).ok
              /\ ~decryptProjectKey(sent.body.encryptedProjectKey,
                     loadIdentityKeypair.publicKey, generateKeypair(u).secretKey).ok
        /\ Succeeded("new") =>
              /\ loadProjectKey(EventProject).ok
              /\ SelfUnwrapped = Ok(loadProjectKey(EventProject).value)

\* a project has just been created and its key is in the keystore
C18_Witness ==
    /\ CreateSent /\ Succeeded("new")
    /\ loadProjectKey(EventProject).ok
    /\ \E e \in envelopes : e.user = Me /\ e.project = EventProject

-----------------------------------------------------------------------------
(* C19: the timer poll of watch mode *)

\* a tick of workspace w's watch session gets the answer to its version request
VersionAnswered(w) ==
    /\ pc[w] = "watch" /\ pc'[w] = "watch"
    /\ loc'[w].polling = loc[w].polling - 1

\* a tick of workspace w's watch session gets the answer to its pull
PullAnswered(w) ==
    /\ pc[w] = "watch" /\ pc'[w] = "watch"
    /\ loc'[w].pulling = loc[w].pulling - 1

\* the relay's current version of the watched project
WatchedVersion(w) == relayVersion(loc[w].config.projectId)

\* the answer to the version request: a pull follows exactly when the version
\* fetched exceeds local_version; otherwise the tick is over and has written
\* nothing
VersionStep(w) ==
    /\ loc'[w].pulling \in {loc[w].pulling, loc[w].pulling + 1}
    /\ loc'[w].pulling > loc[w].pulling => WatchedVersion(w) > loc[w].localVersion
    /\ (loc'[w].pulling = loc[w].pulling /\ event' # Quiet)
          => ~(WatchedVersion(w) > loc[w].localVersion)
    /\ file' = file
    /\ loc'[w].localVersion = loc[w].localVersion

\* the answer to the pull: the head snapshot is decrypted and written to the
\* file and local_version becomes its version, or (the request or the write
\* failed) neither changes
PullStep(w) ==
    LET p == loc[w].config.projectId
    IN  IF event'.result = "success"
        THEN /\ file'[w] = FileOf(uploads[p][WatchedVersion(w)].plain)
             /\ loc'[w].localVersion = WatchedVersion(w)
             /\ event'.version = WatchedVersion(w)
        ELSE /\ file' = file
             /\ loc'[w].localVersion = loc[w].localVersion

\* C19: a tick fetches the relay's current version; if it exceeds
\* local_version the loop pulls, decrypts, overwrites the local file and sets
\* local_version to the pulled version; otherwise it pulls nothing, writes
\* nothing and leaves local_version alone.
C19_TimerPoll ==
    [][\A w \in Workspaces :
        /\ VersionAnswered(w) => VersionStep(w)
        /\ PullAnswered(w) => PullStep(w)
      ]_vars

\* the poll has just pulled version 2 and written its plaintext to the file
C19_Witness ==
    \E w \in Workspaces :
        /\ pc[w] = "watch"
        /\ event.cmd = "poll" /\ event.result = "success" /\ event.version = 2
        /\ loc[w].localVersion = 2
        /\ file[w] = FileOf(uploads[loc[w].config.projectId][2].plain)

-----------------------------------------------------------------------------
(* C20: the local-change handler of watch mode *)

\* a step of workspace w's watch session that leaves the session running
Watching(w) == pc[w] = "watch" /\ pc'[w] = "watch"

\* a callback of w gets its answer in this step
Answered(w) == Watching(w) /\ loc'[w].prompting = loc[w].prompting - 1

\* the POST of a callback of w is answered in this step
Posted(w) == Watching(w) /\ Len(loc'[w].posting) = Len(loc[w].posting) - 1

\* a callback reaches its prompt only from its debounce, and its upload only
\* from an accepted prompt
UploadGated(w) ==
    /\ loc'[w].prompting > loc[w].prompting
          => loc'[w].debouncing = loc[w].debouncing - 1
    /\ Len(loc'[w].posting) > Len(loc[w].posting)
          => Answered(w) /\ event'.result = "accepted"
    /\ (event'.cmd = "watch" /\ sent' # NoRequest) => Posted(w)

\* accepting encrypts the file's content for the upload; neither answer
\* changes local_version, and a decline uploads nothing
AnswerStep(w) ==
    /\ event'.cmd = "watch" /\ event'.result \in {"accepted", "declined"}
    /\ loc'[w].localVersion = loc[w].localVersion
    /\ sent' = NoRequest /\ UNCHANGED snapshots
    /\ IF event'.result = "accepted"
       THEN /\ Len(loc'[w].posting) = Len(loc[w].posting) + 1
            /\ SubSeq(loc'[w].posting, 1, Len(loc[w].posting)) = loc[w].posting
            /\ LET request == loc'[w].posting[Len(loc'[w].posting)]
               IN  /\ request.content = file[w].content
                   /\ decryptEnv(request.encryptedPayload, loc[w].projectKey)
                        = Ok(request.content)
       ELSE loc'[w].posting = loc[w].posting

\* the upload is sent; when the relay accepts it local_version becomes the
\* version the relay assigned, when it fails local_version stays
PostStep(w) ==
    LET p == loc[w].config.projectId
    IN  /\ sent'.path = "POST /api/projects/id/env"
        /\ sent'.body.encryptedPayload = Head(loc[w].posting).encryptedPayload
        /\ IF event'.result = "success"
           THEN /\ relayVersion(p)' = relayVersion(p) + 1
                /\ loc'[w].localVersion = relayVersion(p)'
           ELSE /\ UNCHANGED snapshots
                /\ loc'[w].localVersion = loc[w].localVersion

\* a handler ends in this step: its prompt was declined or its POST answered
HandlerEnds(w) == (Answered(w) /\ event'.result = "declined") \/ Posted(w)

\* both guards are clear after the step
GuardsCleared(w) == ~loc'[w].isPushing /\ ~loc'[w].isPrompting

\* C20: a detected write leads to an upload only after the debounce delay and
\* only if the user accepts the prompt; on acceptance the content is
\* encrypted and pushed and local_version becomes the version the relay
\* assigned; on decline or push failure local_version does not change; and in
\* every case both guards are cleared when the handler ends.
C20_LocalChangeHandler ==
    [][\A w \in Workspaces :
        Watching(w) =>
            /\ UploadGated(w)
            /\ Answered(w) => AnswerStep(w)
            /\ Posted(w) => PostStep(w)
            /\ HandlerEnds(w) => GuardsCleared(w)
      ]_vars

\* the clauses of C20 other than the last one: these hold
C20_Rest ==
    [][\A w \in Workspaces :
        Watching(w) =>
            /\ UploadGated(w)
            /\ Answered(w) => AnswerStep(w)
            /\ Posted(w) => PostStep(w)
      ]_vars

-----------------------------------------------------------------------------
(* C21: the poll and the local-change handler *)

\* a confirmation prompt or a push of w's watch session is in flight
InFlight(w) == loc[w].prompting > 0 \/ loc[w].posting # <<>>

\* C21: while a confirmation prompt or a push is in flight, no step of the
\* timer poll overwrites the local file or changes local_version.
C21_PollKeepsOut ==
    [][\A w \in Workspaces :
        ((VersionAnswered(w) \/ PullAnswered(w)) /\ InFlight(w))
            => /\ file' = file
               /\ loc'[w].localVersion = loc[w].localVersion
      ]_vars

-----------------------------------------------------------------------------
(* C22: one confirmation prompt at a time *)

\* C22: in a watch session at most one confirmation prompt is outstanding,
\* and a file event that arrives while a prompt or a push is in flight
\* starts no new handler.
C22_OnePrompt ==
    /\ [](\A w \in Workspaces : pc[w] = "watch" => loc[w].prompting <= 1)
    /\ [][\A w \in Workspaces :
            (pc[w] = "watch" /\ pc'[w] = "watch" /\ InFlight(w))
                => loc'[w].debouncing <= loc[w].debouncing
         ]_vars

-----------------------------------------------------------------------------
(* C23: one transfer at a time *)

\* C23: within one watch session no two encrypt/push sequences and no two
\* pull/decrypt sequences are in progress at the same time.
C23_OneTransfer ==
    \A w \in Workspaces :
        pc[w] = "watch" => Len(loc[w].posting) <= 1 /\ loc[w].pulling <= 1

-----------------------------------------------------------------------------
(* C24: the poll's own write *)

\* C24: the step in which the poll applies a remote update starts no
\* local-change handler, and when it is over the file is watched as it was
\* before it.
C24_OwnWriteUnnoticed ==
    [][\A w \in Workspaces :
        PullAnswered(w) =>
            /\ loc'[w].debouncing = loc[w].debouncing
            /\ loc'[w].prompting = loc[w].prompting
            /\ loc[w].watcher => loc'[w].watcher
      ]_vars

-----------------------------------------------------------------------------
(* C25: the interrupt signal *)

\* the watch session of w has been stopped by a signal in the last step
Stopped(w) == event.w = w /\ event.cmd = "start" /\ event.result = "stopped"

\* nothing of a watch session is left: no timer, no watcher, no tick, prompt
\* or push in flight
NoSession(w) == pc[w] # "watch" /\ loc[w] = NoLoc

\* a step of the timer poll or of the local-change handler
SessionStep(w) ==
    \/ event'.w = w /\ event'.cmd \in {"poll", "watch"}
    \/ pc'[w] = "watch" /\ loc'[w] # loc[w]

\* C25: the signal handler cancels the timer and releases the watcher before
\* the process exits, and once it has run no poll, prompt or push begins
\* (until the user starts another watch session).
C25_SignalStops ==
    /\ [](\A w \in Workspaces : Stopped(w) => NoSession(w))
    /\ [][\A w \in Workspaces :
            (NoSession(w) /\ SessionStep(w))
                => event'.cmd = "start" /\ event'.result # "stopped"
         ]_vars

\* a session has been stopped after the relay was given a snapshot
C25_Witness ==
    \E w \in Workspaces :
        /\ Stopped(w) /\ NoSession(w)
        /\ relayVersion(cfg[w].projectId) > 0

-----------------------------------------------------------------------------
(* C26: the comparison of two mappings *)

\* a mapping as a set of keys and the value of each
KeysOf(map) == {map[i].key : i \in DOMAIN map}
ValueAt(map, k) == (CHOOSE e \in {map[i] : i \in DOMAIN map} : e.key = k).value
Items(seq) == {seq[i] : i \in DOMAIN seq}

\* the keys the lines of a list of 'key=value' strings are about
LineKeys(list, keys) ==
    {k \in keys : \E i \in DOMAIN list :
        /\ Len(list[i]) > Len(k)
        /\ SubSeq(list[i], 1, Len(k) + 1) = k \o <<61>>}

Compared == diffCall.fn = "diff" /\ diffCall.done

\* C26: for every pair of mappings, added is exactly the keys of remote
\* that local lacks, removed exactly the keys of local that remote lacks,
\* changed exactly the keys of both whose values differ, with both values;
\* no key is reported twice or in two lists, and the three lists are all
\* empty exactly when the two mappings are equal.
C26_DiffCorrect ==
    Compared =>
        LET l == diffCall.localVars
            r == diffCall.remoteVars
            keys == KeysOf(l) \cup KeysOf(r)
            onlyRemote == KeysOf(r) \ KeysOf(l)
            onlyLocal == KeysOf(l) \ KeysOf(r)
            differing == {k \in KeysOf(l) \cap KeysOf(r) : ValueAt(l, k) # ValueAt(r, k)}
            addedKeys == LineKeys(diffCall.added, keys)
            removedKeys == LineKeys(diffCall.removed, keys)
            changedKeys == {e.key : e \in Items(diffCall.changed)}
        IN  /\ Items(diffCall.added) = {k \o <<61>> \o ValueAt(r, k) : k \in onlyRemote}
            /\ Len(diffCall.added) = Cardinality(onlyRemote)
            /\ Items(diffCall.removed) = {k \o <<61>> \o ValueAt(l, k) : k \in onlyLocal}
            /\ Len(diffCall.removed) = Cardinality(onlyLocal)
            /\ Items(diffCall.changed) =
                    {[key |-> k, local |-> ValueAt(l, k), remote |-> ValueAt(r, k)]
                        : k \in differing}
            /\ Len(diffCall.changed) = Cardinality(differing)
            /\ addedKeys \cap removedKeys = {}
            /\ addedKeys \cap changedKeys = {}
            /\ removedKeys \cap changedKeys = {}
            /\ (diffCall.added = <<>> /\ diffCall.removed = <<>> /\ diffCall.changed = <<>>)
                    <=> (KeysOf(l) = KeysOf(r) /\ \A k \in keys : ValueAt(l, k) = ValueAt(r, k))
            /\ diffCall.inSync
                    <=> (KeysOf(l) = KeysOf(r) /\ \A k \in keys : ValueAt(l, k) = ValueAt(r, k))

\* local {A=1, B=2} and remote {B=3, C=4} were compared: added 'C=4',
\* removed 'A=1', changed B from 2 to 3
C26_Witness ==
    /\ Compared
    /\ diffCall.localVars = <<[key |-> <<65>>, value |-> <<49>>], [key |-> <<66>>, value |-> <<50>>]>>
    /\ diffCall.remoteVars = <<[key |-> <<66>>, value |-> <<51>>], [key |-> <<67>>, value |-> <<52>>]>>
    /\ diffCall.added = << <<67, 61, 52>> >>
    /\ diffCall.removed = << <<65, 61, 49>> >>
    /\ diffCall.changed = <<[key |-> <<66>>, local |-> <<50>>, remote |-> <<51>>]>>
    /\ ~diffCall.inSync

-----------------------------------------------------------------------------
(* C27: parsing a document *)

\* s without the white space at its two ends
Stripped(s) ==
    LET cut == CHOOSE c \in (0..Len(s)) \X (0..Len(s)) :
                /\ c[1] <= c[2]
                /\ \A i \in 1..c[1] : s[i] \in WhiteSpace
                /\ \A i \in (c[2] + 1)..Len(s) : s[i] \in WhiteSpace
                /\ c[1] < c[2] => (s[c[1] + 1] \notin WhiteSpace /\ s[c[2]] \notin WhiteSpace)
    IN  SubSeq(s, cut[1] + 1, cut[2])

\* the place of the first '=' of t
FirstEquals(t) == CHOOSE j \in 1..Len(t) : t[j] = 61 /\ \A h \in 1..(j - 1) : t[h] # 61

\* the lines of the document that are not blank, are no comment and have
\* an '=' to be split on, with the key and the value of each
KeyLines(lines) ==
    {i \in DOMAIN lines :
        LET t == Stripped(lines[i])
        IN  t # <<>> /\ t[1] # 35 /\ \E j \in 1..Len(t) : t[j] = 61}
KeyOf(line) ==
    LET t == Stripped(line) IN Stripped(SubSeq(t, 1, FirstEquals(t) - 1))
ValueOf(line) ==
    LET t == Stripped(line) IN Stripped(SubSeq(t, FirstEquals(t) + 1, Len(t)))

Parsed == diffCall.fn = "parseEnvContent" /\ diffCall.done

\* C27: the mapping parsed from a document has one entry per distinct key
\* of its non-blank, non-comment lines, each split on its first '=' with
\* the key trimmed, and the value of a key is that of the last line of
\* the document with that key.  (A line without '=' has no key.)
C27_ParseLastWins ==
    Parsed =>
        LET lines == diffCall.lines
            map == diffCall.map
            keyLines == KeyLines(lines)
            keys == {KeyOf(lines[i]) : i \in keyLines}
        IN  /\ KeysOf(map) = keys
            /\ Len(map) = Cardinality(keys)
            /\ \A k \in keys :
                    LET last == CHOOSE i \in keyLines :
                                    /\ KeyOf(lines[i]) = k
                                    /\ \A j \in keyLines : KeyOf(lines[j]) = k => j <= i
                    IN  ValueAt(map, k) = ValueOf(lines[last])

\* a document was parsed in which a key occurs on two lines with different
\* values, a line has white space around its key and a line has two '='
C27_Witness ==
    /\ Parsed
    /\ \E i, j \in KeyLines(diffCall.lines) :
            /\ i < j
            /\ KeyOf(diffCall.lines[i]) = KeyOf(diffCall.lines[j])
            /\ ValueOf(diffCall.lines[i]) # ValueOf(diffCall.lines[j])
            /\ ValueAt(diffCall.map, KeyOf(diffCall.lines[j])) = ValueOf(diffCall.lines[j])
    /\ \E i \in KeyLines(diffCall.lines) :
            diffCall.lines[i] # Stripped(diffCall.lines[i])
    /\ \E i \in KeyLines(diffCall.lines) :
            61 \in Items(ValueOf(diffCall.lines[i]))

-----------------------------------------------------------------------------
(* C28: rollback as a push *)

\* the step in which w's rollback uploaded the old text
RolledBack(w) == event'.w = w /\ event'.cmd = "rollback" /\ event'.result = "success"

\* C28: a confirmed rollback leaves the workspace as a push of the old
\* text would: the recorded last-pushed version is the new head version
\* and the pending keys are synchronised next.
C28_RollbackIsPush ==
    [][\A w \in Workspaces :
        RolledBack(w)
            => /\ lastPushedOrZero(cfg'[w]) = event'.version
               /\ pc'[w] = "sync.list"
      ]_vars

-----------------------------------------------------------------------------
(* C29: one project key *)

\* what the member an envelope is for obtains from it
Unwrapped(e) ==
    decryptProjectKey(e.encryptedProjectKey,
                      generateKeypair(Me).publicKey,
                      generateKeypair(e.user).secretKey)

\* C29: the key stored for a project is generated in the step that creates
\* the project and never replaced, and the payload of every key envelope
\* uploaded for the project is that key.
C29_OneProjectKey ==
    /\ [](\A e \in envelopes :
            /\ loadProjectKey(e.project).ok
            /\ Unwrapped(e) = loadProjectKey(e.project))
    /\ [][\A p \in ProjectIds :
            IF keystore[p].exists
            THEN keystore'[p] = keystore[p]
            ELSE keystore'[p].exists
                    => \E r \in (rnd + 1)..rnd' :
                            decodeBase64(keystore'[p].content) = generateProjectKey(r)
         ]_vars

\* the creator's workspace holds the key, and an envelope for the creator
\* and one for another member are at the relay
C29_Witness ==
    \E e, f \in envelopes :
        /\ e.project = f.project
        /\ e.user = Me
        /\ f.user # Me
        /\ loadProjectKey(e.project).ok
        /\ Unwrapped(f) = loadProjectKey(e.project)

-----------------------------------------------------------------------------
(* C30: the recorded last-pushed version *)

\* the step in which the relay accepted a snapshot uploaded by workspace w
Pushed(w) ==
    /\ event'.w = w
    /\ event'.cmd \in {"push", "rollback", "watch"}
    /\ event'.result = "success"
    /\ relayVersion(cfg[w].projectId)' = relayVersion(cfg[w].projectId) + 1

\* C30: the last-pushed version recorded in a workspace's config is the
\* version of the most recent snapshot the workspace uploaded to its current
\* project: absent when the project is set up, set to the new version by
\* every step in which an upload of the workspace is accepted, and left as
\* it is by every other step that leaves the workspace in the project.
C30_LastKnownVersion ==
    [][\A w \in Workspaces :
        IF ~cfg[w].exists
        THEN cfg'[w].exists => lastPushedOrZero(cfg'[w]) = 0
        ELSE IF Pushed(w)
        THEN lastPushedOrZero(cfg'[w]) = event'.version
        ELSE cfg'[w].projectId = cfg[w].projectId
                => lastPushedOrZero(cfg'[w]) = lastPushedOrZero(cfg[w])
      ]_vars


-----------------------------------------------------------------------------
(* C34, C35: lib/config.ts *)

\* what config.json holds: the stored object, empty when there is no file
Stored == IF configFile.exists THEN configFile.content ELSE << >>

\* C34: saveConfig merges rather than replaces. After a call saveConfig(partial)
\* every field of `partial` that has a value reads back from getConfig() with
\* that value (authToken excepted while GITIGNORED_TOKEN is set, when the
\* environment's value is what getConfig() answers), and every field the file
\* held before the call that `partial` does not name is still in the file with
\* its value.
C34_SaveConfigMerges ==
    [][configCall'.fn = "saveConfig" =>
         LET partial == JSONOf(configCall'.partial)
             before == Stored
             after == Stored'
         IN  /\ \A k \in DOMAIN partial :
                    \/ Get(getConfig', k) = partial[k]
                    \/ k = "authToken" /\ Truthy(envToken)
             /\ \A k \in DOMAIN before \ DOMAIN configCall'.partial :
                    Get(after, k) = before[k]]_vars

\* C35: while GITIGNORED_TOKEN is set, getConfig() returns its value as
\* authToken whatever the file holds, and no call of saveConfig or clearConfig
\* leaves that value in the file as authToken.
C35_EnvTokenNotPersisted ==
    /\ [](Truthy(envToken) => Get(getConfig, "authToken") = envToken)
    /\ [][(configCall'.fn \in {"saveConfig", "clearConfig"} /\ Truthy(envToken))
            => Get(Stored', "authToken") # envToken]_vars

\* saveConfig was given the environment's token as authToken along with other
\* fields: the other fields are stored, no token is, and getConfig() still
\* answers with the environment's token
C35_Witness ==
    /\ Truthy(envToken)
    /\ configCall.fn = "saveConfig"
    /\ Get(configCall.partial, "authToken") = envToken
    /\ Get(Stored, "userId") = "user-444"
    /\ "authToken" \notin DOMAIN Stored
    /\ Get(getConfig, "authToken") = envToken


-----------------------------------------------------------------------------
(* C31, C38: the identity keypair and its registration *)

\* the random draw the stored identity keypair came from
IdentityDraw == identity.content.publicKey.bytes[1].owner

\* C31: the identity is created once and never changes. The identity file is
\* written only when none exists, by the login that generates the keypair at
\* its approved status; once it exists no step changes it; and the relay is
\* sent a public key only by that same login, from its registration request,
\* and only the stored one, so that no key is registered a second time.
C31_IdentityCreatedOnce ==
    /\ [][hasIdentityKeypair => identity' = identity]_vars
    /\ [][identity' # identity =>
            /\ login.at = "status" /\ login'.at = "keys"
            /\ identity' = saveIdentityKeypair(generateKeypair(rnd'))]_vars
    /\ [][registered' # registered =>
            /\ login.at = "keys" /\ login.code = IdentityDraw - 1
            /\ registered = << >>
            /\ registered' = <<identity.content.publicKey>>]_vars

\* a login started after the keypair had been generated and registered has
\* reported success, and the key is still the only one registered
C31_Witness ==
    /\ event = Report(0, "login", "success", 0)
    /\ hasIdentityKeypair
    /\ rnd > IdentityDraw
    /\ registered = <<identity.content.publicKey>>

\* C38: whenever login has reported success, the identity file exists and its
\* public key is one the relay's key-registration endpoint accepted.
C38_SuccessMeansRegistered ==
    event = Report(0, "login", "success", 0) =>
        /\ hasIdentityKeypair
        /\ \E i \in DOMAIN registered : registered[i] = identity.content.publicKey


-----------------------------------------------------------------------------
(* C32: a failed key distribution is retried *)

\* the relay holds a key envelope for member u of project p
HasEnvelope(p, u) == \E e \in envelopes : e.project = p /\ e.user = u

\* a workspace of this machine can pull project p: it is configured for it,
\* the project key is stored and the project has a snapshot
CanPull(p) ==
    \E w \in Workspaces :
        /\ cfg[w].exists /\ cfg[w].projectId = p
        /\ loadProjectKey(p).ok
        /\ ~noPayload(relayLatest(p))

\* the model's budget of random draws is used up: no further nonce can be made
Exhausted == rnd = MaxRand

\* a member stops being pending only by getting an envelope: an upload that
\* failed leaves the member pending
StaysPending ==
    \A p \in ProjectIds, u \in Identities \ {Me} :
        (<<p, u>> \in pending /\ <<p, u>> \notin pending') => HasEnvelope(p, u)'

\* every sync whose list request is answered takes up every member that is
\* pending then, those whose upload failed in an earlier sync included
TakenUpAgain ==
    \A w \in Workspaces :
        (pc[w] = "sync.list" /\ pc'[w] = "sync.key") =>
            \A u \in Identities \ {Me} :
                <<loc[w].projectId, u>> \in pending =>
                    \E i \in DOMAIN loc'[w].todo : loc'[w].todo[i].userId = u

\* C32: a pending member whose key upload failed stays pending and is taken
\* up again by the sync of a later push or pull; and as long as the member's
\* machine keeps pulling and the repeated requests do not fail for ever, every
\* pending member eventually has an envelope (or the model's random draws
\* have run out).
C32_FailedSyncRetried ==
    /\ [][StaysPending /\ TakenUpAgain]_vars
    /\ \A p \in ProjectIds, u \in Identities \ {Me} :
          (<<p, u>> \in pending /\ CanPull(p)) ~> (HasEnvelope(p, u) \/ Exhausted)

\* a sync has ended with its last upload failed: the member it was for is
\* still pending, and a random draw is left for the retry
C32_Witness ==
    \E w \in Workspaces, u \in Identities \ {Me} :
        /\ pc[w] = "idle"
        /\ sent.path = "POST /api/projects/id/members/userId/key"
        /\ decryptProjectKey(sent.body.encryptedProjectKey,
                             loadIdentityKeypair.publicKey,
                             generateKeypair(u).secretKey).ok
        /\ \E p \in ProjectIds : <<p, u>> \in pending /\ CanPull(p)
        /\ ~Exhausted


-----------------------------------------------------------------------------
(* C33: the pages of the log command *)

\* the log command is between two page requests, or at the first
Walking == logCall.at = "page"

\* the entries collected so far are the first n of the history, each once
CollectedOnce(call) ==
    \A i \in DOMAIN call.allSnapshots : call.allSnapshots[i] = i

-----------------------------------------------------------------------------
(* C36: what the commands write into .env.shared *)

\* the commands that fetch a snapshot and write the mirror file
Writers == {"pull", "switch", "rollback", "start", "poll"}

\* `content` is the plaintext of a snapshot the relay holds that authenticates
\* and decrypts under the project key stored on this machine
Verified(content) ==
    \E p \in ProjectIds :
        /\ loadProjectKey(p).ok
        /\ \E v \in 1..relayVersion(p) :
              decryptEnv(relaySnapshot(p, v).encryptedPayload, loadProjectKey(p).value)
                 = Ok(content)

\* a step of one of these commands in workspace w
WriterStep(w) == event'.w = w /\ event'.cmd \in Writers

\* C36: pull, switch, rollback, start and the poll of watch mode change
\* .env.shared only to the plaintext of a snapshot that authenticated and
\* decrypted under the local project key; when the decryption fails the file
\* keeps its content, and in the poll the watcher is not closed and the
\* in-memory version is not changed.
C36_WritesOnlyVerified ==
    [][\A w \in Workspaces :
        WriterStep(w) =>
            /\ file'[w] # file[w] => (file'[w].exists /\ Verified(file'[w].content))
            /\ event'.result \in {"failed", "unverified"} =>
                  /\ file'[w] = file[w]
                  /\ pc[w] = "watch" =>
                        /\ loc'[w].watcher = loc[w].watcher
                        /\ loc'[w].localVersion = loc[w].localVersion
      ]_vars

\* the poll of a watch session has just met a snapshot that does not open
\* under the local key: the watcher is still there, the file and the version
\* are those of the snapshot pulled before
C36_Witness ==
    \E w \in Workspaces :
        /\ event = Report(w, "poll", "unverified", 0)
        /\ pc[w] = "watch" /\ loc[w].watcher
        /\ loc[w].localVersion > 0
        /\ file[w].exists /\ Verified(file[w].content)


-----------------------------------------------------------------------------
(* C40: the file watchers of a watch session *)

\* C40: a watch session has at most one file watcher open, and it is the one
\* the session holds: every watcher started earlier has been closed, also
\* when the answers to two ticks overlap or a poll's write fails. The
\* signal handler, which closes the watcher the session holds, therefore
\* leaves none open.
C40_OneWatcher ==
    /\ [](\A w \in Workspaces :
            pc[w] = "watch" =>
                /\ loc[w].open <= 1
                /\ loc[w].open = 1 <=> loc[w].watcher)
    /\ [][\A w \in Workspaces :
            (pc[w] = "watch" /\ pc'[w] = "idle") => closed(loc[w]) = 0]_vars

\* a poll's write has failed while the answer to another tick is still under
\* way: the watcher was closed and none is open
C40_Witness ==
    \E w \in Workspaces :
        /\ pc[w] = "watch"
        /\ event = Report(w, "poll", "unwritten", 0)
        /\ loc[w].pulling > 0
        /\ loc[w].open = 0


-----------------------------------------------------------------------------
(* C37: the version a watch session holds in memory *)

\* C37: during a watch session local_version never decreases and is never
\* above the version at the head of the relay's history, whatever the order
\* in which the answers to the poll's requests and to the handler's upload
\* arrive.
C37_LocalVersionMonotone ==
    /\ [](\A w \in Workspaces :
            pc[w] = "watch" =>
                loc[w].localVersion <= relayVersion(loc[w].config.projectId))
    /\ [][\A w \in Workspaces :
            (pc[w] = "watch" /\ pc'[w] = "watch") =>
                loc'[w].localVersion >= loc[w].localVersion]_vars


-----------------------------------------------------------------------------
(* C39: a watch session catches up with the relay *)

\* the relay's head is above the version the session of w holds
Behind(w) ==
    pc[w] = "watch" /\ relayVersion(loc[w].config.projectId) > loc[w].localVersion

\* a local change is being handled: a callback of the watcher is in its
\* debounce, at its prompt or uploading
Busy(w) ==
    pc[w] = "watch" /\ (callbacks(loc[w]) > 0 \/ loc[w].isPrompting \/ loc[w].isPushing)

\* the file holds the plaintext of the head snapshot and the session holds
\* the head version
CaughtUp(w) ==
    /\ pc[w] = "watch"
    /\ LET head == relayLatest(loc[w].config.projectId)
       IN  /\ loc[w].localVersion = head.version
           /\ ~noPayload(head)
           /\ file[w].exists
           /\ decryptEnv(head.encryptedPayload, loc[w].projectKey) = Ok(file[w].content)

\* C39: a watch session that is behind the relay's head catches up: unless a
\* local change comes to be handled (or the session is stopped), the timer
\* poll eventually leaves the file with the plaintext of the head snapshot
\* and local_version at the head version.
C39_WatchConverges ==
    \A w \in Workspaces : Behind(w) ~> (CaughtUp(w) \/ Busy(w) \/ pc[w] # "watch")

\* a poll has just brought the session to the head, version 2 or above
C39_Witness ==
    \E w \in Workspaces :
        /\ CaughtUp(w)
        /\ event = Report(w, "poll", "success", loc[w].localVersion)
        /\ loc[w].localVersion > 1

====
